---- MODULE Spec2Model ----
(***************************************************************************)
(* rqlink: a client for rqlite.  The repository holds two copies of the    *)
(* client, src/unnamed/part_000 (schema cache, payload limit, requireTLS,  *)
(* backoff) and the earlier src/rqlink.js.  The variable `source` says     *)
(* which copy a behaviour runs; definitions named Legacy... model          *)
(* src/rqlink.js, the others model src/unnamed/part_000.                   *)
(*                                                                         *)
(* Eight state machines share the module:                                    *)
(*   SpecSend    the request dispatcher rqliteRequest and its two callers  *)
(*               executeSQL and querySQL, one step per await;              *)
(*   SpecCache   the schema cache (getCachedSchema, setCachedSchema,       *)
(*               invalidateCache) under a clock;                           *)
(*   SpecDeliver the same dispatcher on write requests, over endpoints     *)
(*               that may also answer late or in part;                     *)
(*   SpecBatch   a batch builder: queueing and execute();                  *)
(*   SpecOverlap the builder with execute() calls that overlap in time;    *)
(*   SpecCompile the table methods that compile filters, updates and       *)
(*               orderings into SQL text and named parameters;             *)
(*   SpecMigrate initDB against a server that holds tables and columns;    *)
(*   SpecRace    initDB calls of part_000 that run at the same time.       *)
(***************************************************************************)
EXTENDS Integers, Sequences, FiniteSets, TLC

VARIABLES
    source,      \* which copy of the client runs: "part_000" or "rqlink_js"
    CONFIG,      \* the process-wide configuration object
    net,         \* what each endpoint does with a request of the current call
    pc,          \* position of the current rqliteRequest call
    api,         \* the exported function that made the call
    sql,         \* the statement handed to it
    levelOverride, \* querySQL's sixth argument
    path,        \* the path rqliteRequest was given
    baseUrls,    \* the endpoint list rqliteRequest was given
    urls,        \* the list its for loop iterates
    payloadLen,  \* payloadStr.length
    iter,        \* 1-based position of the for loop in urls
    attempt,     \* the local `attempt`
    lastError,   \* the local `lastError`
    wire,        \* endpoints a fetch was issued to, in order, in this call
    outcome,     \* what the call returned or threw
    schemaCache, \* the Map, as the sequence of its entries in iteration order
    now,         \* Date.now()
    ticks,       \* clock advances so far
    cacheOps,    \* cache calls so far
    ret,         \* the last cache call: its name, key and return value
    lastRead,    \* key of the latest getCachedSchema that returned data, 0 if none
    operations,  \* the batch builder's queue
    exec,        \* the running execute() call
    other,       \* an execute() call made on the builder while that one runs
    sentOps,     \* the transaction requests issued so far, in order
    nextOp,      \* id of the next operation to be queued
    executes,    \* execute() calls made so far
    call,        \* the table-model or batch-builder call: its name and arguments
    callPc,      \* its position: "idle", "awaiting" its request, or "done"
    built,       \* what it compiled: statement, bindings, or the error thrown
    requests,    \* statements handed to executeSQL / querySQL, in order
    compiled,    \* what the calls made so far compiled, in order
    db,          \* the server: for each table its columns and indexes, or that it is absent
    init,        \* the running initDB call
    issued,      \* statements the initDB calls sent, in order
    runs,        \* how the initDB calls made so far ended, in order
    race         \* initDB calls that run at the same time on one table

sendVars  == <<source, CONFIG, net, pc, api, sql, levelOverride, path, baseUrls,
               urls, payloadLen, iter, attempt, lastError, wire, outcome>>
requestVars == <<source, net, pc, api, sql, levelOverride, path, baseUrls,
                 urls, payloadLen, iter, attempt, lastError, wire, outcome>>
cacheVars == <<schemaCache, now, ticks, cacheOps, ret, lastRead>>
batchVars == <<operations, exec, other, sentOps, nextOp, executes>>
compileVars == <<call, callPc, built, requests, compiled>>
migrateVars == <<db, init, issued, runs, race>>
vars      == <<sendVars, cacheVars, batchVars, compileVars, migrateVars>>

----------------------------------------------------------------------------
(* Bounds of the model *)

MaxUrls == 2

MaxCacheOps == 2

MaxTicks == 2

MaxQueued == 3

MaxExecutes == 2

MaxInList == 2

MaxNesting == 2

MaxCalls == 2

MaxRuns == 2

MaxStarts == 3

----------------------------------------------------------------------------
(* Endpoints.  A base URL is kept as its scheme and host: the code reads    *)
(* only startsWith("https://") and includes("localhost"|"127.0.0.1").      *)

Endpoints ==
    { [scheme |-> "http",  host |-> "localhost"],
      [scheme |-> "https", host |-> "127.0.0.1"],
      [scheme |-> "http",  host |-> "node-a"],
      [scheme |-> "https", host |-> "node-b"] }

IsHttps(u) == u.scheme = "https"

IsLocal(u) == u.host \in {"localhost", "127.0.0.1"}

\* What an endpoint does with a request: answer 2xx without error, refuse the
\* connection, never answer (the deadline timer aborts the fetch), answer with
\* a non-2xx status, or answer 2xx with an error in results[0].
Behaviours == {"ok", "refused", "timeout", "http500", "stmterr"}

\* And besides: run the statement and answer after the deadline; run it, send
\* the status line and never the body; answer 2xx with an error in results[1]
\* only (a request of two statements whose second failed).
Deliveries == Behaviours \cup {"late", "stall", "stmterr2"}

\* The endpoint runs the statements of a request it receives.
Runs(b) == b \in {"ok", "late", "stall"}

Injective(s) == \A i, j \in DOMAIN s : s[i] = s[j] => i = j

UrlLists ==
    { s \in UNION { [1..n -> Endpoints] : n \in 0..MaxUrls } : Injective(s) }

Range(s) == { s[i] : i \in DOMAIN s }

\* Behaviour assignments that differ only on the endpoints of the list.
NetsFor(list) ==
    { f \in [Endpoints -> Behaviours] :
        \A u \in Endpoints \ Range(list) : f[u] = "refused" }

----------------------------------------------------------------------------
(* Configuration *)

DefaultMaxRequestSize == 1048576

InitialConfig ==
    [ timeout          |-> 5000,
      verbose          |-> FALSE,
      freshness        |-> "0.1s",
      freshness_strict |-> TRUE,
      retryDelay       |-> 50,
      maxRequestSize   |-> DefaultMaxRequestSize,
      requireTLS       |-> FALSE ]

MaxRequestSizes == {DefaultMaxRequestSize, DefaultMaxRequestSize + 1}

RetryDelays == {0, 50}

Freshnesses == {"0.1s", "1s"}

\* payloadStr.length of the calls made here: at the default limit and above it.
PayloadLens == {DefaultMaxRequestSize, DefaultMaxRequestSize + 1, DefaultMaxRequestSize + 2}

----------------------------------------------------------------------------
(* Statements, as token sequences *)

PragmaTableInfo == <<"PRAGMA", "table_info", "t">>

LowerPragmaTableInfo == <<" ", "pragma", "table_info", "t">>

SelectAll == <<"SELECT", "*", "FROM", "t">>

InsertRow == <<"INSERT", "INTO", "t">>

QueryStatements == {PragmaTableInfo, LowerPragmaTableInfo, SelectAll}

\* String.prototype.toUpperCase on the tokens used here.
ToUpperCase(tok) == IF tok = "pragma" THEN "PRAGMA" ELSE tok

IsSpace(tok) == tok = " "

RECURSIVE SkipSpace(_)
SkipSpace(s) ==
    IF s # <<>> /\ IsSpace(Head(s)) THEN SkipSpace(Tail(s)) ELSE s

\* /^\s*PRAGMA/i.test(sql)
PragmaRegex(s) ==
    LET rest == SkipSpace(s)
    IN  rest # <<>> /\ ToUpperCase(Head(rest)) = "PRAGMA"

\* sql.includes("PRAGMA")
LegacyIncludesPragma(s) == \E i \in DOMAIN s : s[i] = "PRAGMA"

\* The values levelOverride takes here; "null" is the default argument.
LevelOverrides == {"null", "strong", "none"}

ExecutePath ==
    [endpoint |-> "/db/execute", level |-> "", freshness |-> "", strict |-> FALSE]

StrongPath ==
    [endpoint |-> "/db/query", level |-> "strong", freshness |-> "", strict |-> FALSE]

BoundedPath(fresh, strict) ==
    [endpoint |-> "/db/query", level |-> "none", freshness |-> fresh, strict |-> strict]

\* const level = levelOverride || (/^\s*PRAGMA/i.test(sql) ? "strong" : "none")
QueryLevel(s, override) ==
    IF override # "null" THEN override
    ELSE IF PragmaRegex(s) THEN "strong" ELSE "none"

\* The path querySQL hands to rqliteRequest.
QueryPath(s, override) ==
    IF QueryLevel(s, override) = "strong"
    THEN StrongPath
    ELSE BoundedPath(CONFIG.freshness, CONFIG.freshness_strict)

LegacyQueryPath(s) ==
    IF LegacyIncludesPragma(s) THEN StrongPath ELSE BoundedPath("1s", TRUE)

----------------------------------------------------------------------------
(* rqliteRequest *)

NoUrl == [scheme |-> "", host |-> ""]

NoError == [kind |-> "none", at |-> NoUrl]

Pending ==
    [kind |-> "pending", error |-> "", attempts |-> 0, cause |-> NoError, from |-> NoUrl]

Returned(u) ==
    [kind |-> "json", error |-> "", attempts |-> 0, cause |-> NoError, from |-> u]

Threw(name, n, err) ==
    [kind |-> "throw", error |-> name, attempts |-> n, cause |-> err, from |-> NoUrl]

\* [...urls].sort(local first): Array.prototype.sort is stable.
sortBaseUrls(list) ==
    SelectSeq(list, IsLocal) \o SelectSeq(list, LAMBDA u : ~IsLocal(u))

\* The limit compared one byte too high.
PayloadTooLargeOffByOne(len) == len > CONFIG.maxRequestSize + 1

\* payloadStr.length > CONFIG.maxRequestSize
PayloadTooLarge(len) == len > CONFIG.maxRequestSize

\* CONFIG.requireTLS && !baseUrl.startsWith("https://")
InsecureBlocked(u) == CONFIG.requireTLS /\ ~IsHttps(u)

\* attempt > 0 && CONFIG.retryDelay > 0
MustBackOff(att) == att > 0 /\ CONFIG.retryDelay > 0

\* attempt++ and the fetch of the current endpoint.
IssueFetch(i, att, err, w) ==
    /\ pc' = "fetch"
    /\ iter' = i
    /\ attempt' = att + 1
    /\ lastError' = err
    /\ wire' = Append(w, urls'[i])
    /\ outcome' = Pending

\* The for loop from its head at position i up to the next await or the exit.
EnterLoop(i, att, err, w) ==
    IF i > Len(urls')
    THEN /\ pc' = "done"
         /\ outcome' = Threw("Unreachable", att, err)
         /\ iter' = i /\ attempt' = att /\ lastError' = err /\ wire' = w
    ELSE IF InsecureBlocked(urls'[i])
    THEN /\ pc' = "done"
         /\ outcome' = Threw("InsecureBlocked", 0, NoError)
         /\ iter' = i /\ attempt' = att /\ lastError' = err /\ wire' = w
    ELSE IF MustBackOff(att)
    THEN /\ pc' = "sleep"
         /\ outcome' = Pending
         /\ iter' = i /\ attempt' = att /\ lastError' = err /\ wire' = w
    ELSE IssueFetch(i, att, err, w)

\* src/rqlink.js: no TLS check, no backoff, no attempt count in the message.
LegacyEnterLoop(i, err, w) ==
    IF i > Len(urls')
    THEN /\ pc' = "done"
         /\ outcome' = Threw("Unreachable", -1, err)
         /\ iter' = i /\ attempt' = 0 /\ lastError' = err /\ wire' = w
    ELSE /\ pc' = "fetch"
         /\ outcome' = Pending
         /\ iter' = i /\ attempt' = 0 /\ lastError' = err
         /\ wire' = Append(w, urls'[i])

\* rqliteRequest from its entry to its first await, return or throw.
rqliteRequest(list, p, len) ==
    /\ baseUrls' = list
    /\ urls' = list
    /\ path' = p
    /\ payloadLen' = len
    /\ IF PayloadTooLarge(len)
       THEN /\ pc' = "done"
            /\ outcome' = Threw("PayloadTooLarge", 0, NoError)
            /\ iter' = 1 /\ attempt' = 0 /\ lastError' = NoError /\ wire' = <<>>
       ELSE EnterLoop(1, 0, NoError, <<>>)

LegacyRqliteRequest(list, p, len) ==
    /\ baseUrls' = list
    /\ urls' = sortBaseUrls(list)
    /\ path' = p
    /\ payloadLen' = len
    /\ LegacyEnterLoop(1, NoError, <<>>)

\* catch (e) { lastError = e } and on to the next endpoint.
Catch(kind) ==
    LET err == [kind |-> kind, at |-> urls[iter]]
    IN  /\ UNCHANGED <<baseUrls, urls, path, payloadLen>>
        /\ IF source = "part_000"
           THEN EnterLoop(iter + 1, attempt, err, wire)
           ELSE LegacyEnterLoop(iter + 1, err, wire)

callVars == <<source, CONFIG, net, api, sql, levelOverride>>

Idle == pc = "idle"

\* configure(options): CONFIG = { ...CONFIG, ...options }
\* Called between calls, and on the copy that reads these keys.
configure ==
    /\ Idle
    /\ source = "part_000"
    /\ \/ \E b \in BOOLEAN : CONFIG' = [CONFIG EXCEPT !.requireTLS = b]
       \/ \E d \in RetryDelays : CONFIG' = [CONFIG EXCEPT !.retryDelay = d]
       \/ \E m \in MaxRequestSizes : CONFIG' = [CONFIG EXCEPT !.maxRequestSize = m]
       \/ \E f \in Freshnesses : CONFIG' = [CONFIG EXCEPT !.freshness = f]
    /\ CONFIG' # CONFIG
    /\ UNCHANGED <<source, net, pc, api, sql, levelOverride, path, baseUrls, urls,
                   payloadLen, iter, attempt, lastError, wire, outcome>>
    /\ UNCHANGED <<cacheVars, batchVars, compileVars, migrateVars>>

executeSQL ==
    /\ Idle
    /\ \E list \in UrlLists, len \in PayloadLens :
         /\ \E f \in NetsFor(list) : net' = f
         /\ api' = "executeSQL"
         /\ sql' = InsertRow
         /\ levelOverride' = "null"
         /\ IF source = "part_000"
            THEN rqliteRequest(list, ExecutePath, len)
            ELSE LegacyRqliteRequest(list, ExecutePath, len)
    /\ UNCHANGED <<source, CONFIG>>
    /\ UNCHANGED <<cacheVars, batchVars, compileVars, migrateVars>>

querySQL ==
    /\ Idle
    /\ \E list \in UrlLists, len \in PayloadLens, s \in QueryStatements,
          override \in LevelOverrides :
         /\ source = "rqlink_js" => override = "null"
         /\ \E f \in NetsFor(list) : net' = f
         /\ api' = "querySQL"
         /\ sql' = s
         /\ levelOverride' = override
         /\ IF source = "part_000"
            THEN rqliteRequest(list, QueryPath(s, override), len)
            ELSE LegacyRqliteRequest(list, LegacyQueryPath(s), len)
    /\ UNCHANGED <<source, CONFIG>>
    /\ UNCHANGED <<cacheVars, batchVars, compileVars, migrateVars>>

\* executeSQL with one statement, or a batch execute() with two, over
\* endpoints that may also answer late, in part, or with the second result
\* in error.
Request ==
    /\ Idle
    /\ \E list \in UrlLists, caller \in {"executeSQL", "execute"} :
         /\ \E f \in [Endpoints -> Deliveries] :
              /\ \A u \in Endpoints \ Range(list) : f[u] = "refused"
              /\ caller = "executeSQL" => \A u \in Endpoints : f[u] # "stmterr2"
              /\ net' = f
         /\ api' = caller
         /\ sql' = InsertRow
         /\ levelOverride' = "null"
         /\ IF source = "part_000"
            THEN rqliteRequest(list, ExecutePath, DefaultMaxRequestSize)
            ELSE LegacyRqliteRequest(list, ExecutePath, DefaultMaxRequestSize)
    /\ UNCHANGED <<source, CONFIG>>
    /\ UNCHANGED <<cacheVars, batchVars, compileVars, migrateVars>>

\* The caller's await of rqliteRequest settles with the outcome; the call is over.
Settle ==
    /\ pc = "done"
    /\ pc' = "idle"
    /\ net' = [u \in Endpoints |-> "refused"]
    /\ api' = ""
    /\ sql' = <<>>
    /\ levelOverride' = "null"
    /\ path' = ExecutePath
    /\ baseUrls' = <<>>
    /\ urls' = <<>>
    /\ payloadLen' = 0
    /\ iter' = 1
    /\ attempt' = 0
    /\ lastError' = NoError
    /\ wire' = <<>>
    /\ outcome' = Pending
    /\ UNCHANGED <<source, CONFIG>>
    /\ UNCHANGED <<cacheVars, batchVars, compileVars, migrateVars>>

\* The backoff sleep ends: attempt++ and the fetch is issued.
Wake ==
    /\ pc = "sleep"
    /\ UNCHANGED <<baseUrls, urls, path, payloadLen, callVars>>
    /\ IssueFetch(iter, attempt, lastError, wire)
    /\ UNCHANGED <<cacheVars, batchVars, compileVars, migrateVars>>

\* fetch rejects: the connection failed.
FetchRejects ==
    /\ pc = "fetch"
    /\ net[urls[iter]] = "refused"
    /\ Catch("refused")
    /\ UNCHANGED callVars
    /\ UNCHANGED <<cacheVars, batchVars, compileVars, migrateVars>>

\* The deadline timer fires, controller.abort() rejects the fetch.
TimerAborts ==
    /\ pc = "fetch"
    /\ net[urls[iter]] \in {"timeout", "late"}
    /\ Catch("timeout")
    /\ UNCHANGED callVars
    /\ UNCHANGED <<cacheVars, batchVars, compileVars, migrateVars>>

\* fetch resolves with the status line: clearTimeout, then if (!res.ok) throw.
FetchResolves ==
    /\ pc = "fetch"
    /\ net[urls[iter]] \in {"ok", "stmterr", "http500", "stmterr2", "stall"}
    /\ IF net[urls[iter]] = "http500"
       THEN Catch("http500")
       ELSE /\ pc' = "body"
            /\ UNCHANGED <<baseUrls, urls, path, payloadLen, iter, attempt,
                           lastError, wire, outcome>>
    /\ UNCHANGED callVars
    /\ UNCHANGED <<cacheVars, batchVars, compileVars, migrateVars>>

\* for (const r of results) if (r.error); src/rqlink.js: json.results?.[0]?.error
ResultsError(b) ==
    \/ b = "stmterr"
    \/ b = "stmterr2" /\ source = "part_000"

\* res.json() resolving with no error in it, and the loop going on all the same.
BodyResolvesAndGoesOn ==
    /\ pc = "body"
    /\ net[urls[iter]] # "stall"
    /\ Catch(IF ResultsError(net[urls[iter]]) THEN "stmterr" ELSE "none")
    /\ UNCHANGED callVars
    /\ UNCHANGED <<cacheVars, batchVars, compileVars, migrateVars>>

\* res.json() resolves: a result with an error throws, otherwise return json.
\* Nothing aborts a body that does not come: the timer was cleared before.
BodyResolves ==
    /\ pc = "body"
    /\ net[urls[iter]] # "stall"
    /\ IF ResultsError(net[urls[iter]])
       THEN Catch("stmterr")
       ELSE /\ pc' = "done"
            /\ outcome' = Returned(urls[iter])
            /\ UNCHANGED <<baseUrls, urls, path, payloadLen, iter, attempt,
                           lastError, wire>>
    /\ UNCHANGED callVars
    /\ UNCHANGED <<cacheVars, batchVars, compileVars, migrateVars>>

----------------------------------------------------------------------------
(* The schema cache.  schemaCache is the Map as the sequence of its entries *)
(* in iteration order, which for a Map is the order of insertion: set on a *)
(* key the Map holds replaces the value in place, set on a new key appends.*)
(* Each entry carries `ins`, the ordinal of its insertion into the Map.    *)

CACHE_TTL == 300000

MAX_CACHE_SIZE == 100

\* Table keys the calls made here use; the keys 1..n are those of Prefilled(n).
ProbeKeys == {1, 2, MAX_CACHE_SIZE, MAX_CACHE_SIZE + 1}

\* Column lists stored in the cache.
Columns == {"cols_v1", "cols_v2"}

\* Clock advances, in ms.
TickSteps == {1, CACHE_TTL}

CacheIdle == [op |-> "none", key |-> 0, hit |-> FALSE, data |-> "", evicted |-> {}]

MapKeys(c) == { c[i].key : i \in DOMAIN c }

MapHas(c, k) == k \in MapKeys(c)

MapGet(c, k) == c[CHOOSE i \in DOMAIN c : c[i].key = k]

MapDelete(c, k) == SelectSeq(c, LAMBDA e : e.key # k)

NextIns(c) ==
    IF c = <<>> THEN 1
    ELSE 1 + (CHOOSE m \in { c[i].ins : i \in DOMAIN c } :
                 \A i \in DOMAIN c : c[i].ins <= m)

MapSet(c, k, data, t) ==
    IF MapHas(c, k)
    THEN [ i \in DOMAIN c |->
             IF c[i].key = k
             THEN [key |-> k, data |-> data, timestamp |-> t, ins |-> c[i].ins]
             ELSE c[i] ]
    ELSE Append(c, [key |-> k, data |-> data, timestamp |-> t, ins |-> NextIns(c)])

\* Expiry at the TTL itself instead of after it.
ExpiredAtTTL(e, t) == t - e.timestamp >= CACHE_TTL

\* Date.now() - entry.timestamp > CACHE_TTL
Expired(e, t) == t - e.timestamp > CACHE_TTL

\* The capacity test with > for >=.
AboveCapacity(c) == Len(c) > MAX_CACHE_SIZE

\* schemaCache.size >= MAX_CACHE_SIZE
AtCapacity(c) == Len(c) >= MAX_CACHE_SIZE

\* The last key of the iteration instead of the first.
NewestKey(c) == c[Len(c)].key

\* schemaCache.keys().next().value
OldestKey(c) == c[1].key

\* The Map after setCachedSchema(key, data) at time t.
setCachedSchema(c, k, data, t) ==
    LET c1 == IF AtCapacity(c) /\ c # <<>> THEN MapDelete(c, OldestKey(c)) ELSE c
    IN  MapSet(c1, k, data, t)

\* The Map after getCachedSchema(key) at time t.
getCachedSchema(c, k, t) ==
    IF MapHas(c, k) /\ Expired(MapGet(c, k), t) THEN MapDelete(c, k) ELSE c

\* What getCachedSchema(key) returns at time t: [hit, data].
getCachedSchemaResult(c, k, t) ==
    IF MapHas(c, k) /\ ~Expired(MapGet(c, k), t)
    THEN [hit |-> TRUE, data |-> MapGet(c, k).data]
    ELSE [hit |-> FALSE, data |-> ""]

\* The entry left where it is.
KeepEntry(c, k) == c

\* The Map after invalidateCache(key).
invalidateCache(c, k) == MapDelete(c, k)

\* The cache after setCachedSchema was called for the new keys 1..n, one call
\* per millisecond from time 1 on, n <= MAX_CACHE_SIZE: every call appends
\* (initDB on a schema of n tables fills the cache so).
Prefilled(n) ==
    [ i \in 1..n |-> [key |-> i, data |-> "cols_v1", timestamp |-> i, ins |-> i] ]

PrefillSizes == {0, MAX_CACHE_SIZE - 1, MAX_CACHE_SIZE}

GetCached ==
    /\ cacheOps < MaxCacheOps
    /\ \E k \in ProbeKeys :
         LET r == getCachedSchemaResult(schemaCache, k, now)
         IN  /\ schemaCache' = getCachedSchema(schemaCache, k, now)
             /\ ret' = [op |-> "get", key |-> k, hit |-> r.hit, data |-> r.data,
                        evicted |-> MapKeys(schemaCache) \ MapKeys(schemaCache')]
             /\ lastRead' = IF r.hit THEN k ELSE lastRead
    /\ cacheOps' = cacheOps + 1
    /\ UNCHANGED <<now, ticks>>
    /\ UNCHANGED <<sendVars, batchVars, compileVars, migrateVars>>

SetCached ==
    /\ cacheOps < MaxCacheOps
    /\ \E k \in ProbeKeys, d \in Columns :
         /\ schemaCache' = setCachedSchema(schemaCache, k, d, now)
         /\ ret' = [op |-> "set", key |-> k, hit |-> FALSE, data |-> d,
                    evicted |-> MapKeys(schemaCache) \ MapKeys(schemaCache')]
    /\ cacheOps' = cacheOps + 1
    /\ UNCHANGED <<now, ticks, lastRead>>
    /\ UNCHANGED <<sendVars, batchVars, compileVars, migrateVars>>

Invalidate ==
    /\ cacheOps < MaxCacheOps
    /\ \E k \in ProbeKeys :
         /\ schemaCache' = invalidateCache(schemaCache, k)
         /\ ret' = [op |-> "invalidate", key |-> k, hit |-> FALSE, data |-> "",
                    evicted |-> MapKeys(schemaCache) \ MapKeys(schemaCache')]
    /\ cacheOps' = cacheOps + 1
    /\ UNCHANGED <<now, ticks, lastRead>>
    /\ UNCHANGED <<sendVars, batchVars, compileVars, migrateVars>>

\* Date.now() moves on.
Tick ==
    /\ ticks < MaxTicks
    /\ \E d \in TickSteps : now' = now + d
    /\ ticks' = ticks + 1
    /\ UNCHANGED <<schemaCache, cacheOps, ret, lastRead>>
    /\ UNCHANGED <<sendVars, batchVars, compileVars, migrateVars>>

----------------------------------------------------------------------------
(* The batch builder.  A queued operation is kept as its id and its         *)
(* destination (port and base URL list); a transaction request as the      *)
(* destination and the ids of the statements it carries.  rqliteRequest is *)
(* seen from execute() as a call that is awaited and then returns or throws.*)

\* The destinations of the schema's tables.
Dests == {"4001|cluster-a", "4002|cluster-b"}

ExecIdle == [pc |-> "idle", groups |-> <<>>, g |-> 0, result |-> "none"]

\* A new group for every operation, whatever groups there are.
SplitGroups(groups, op) == Append(groups, [dest |-> op.dest, ops |-> <<op.id>>])

\* groups[key].ops.push([op.sql, op.params]), the group made on its first op.
AddToGroups(groups, op) ==
    IF \E i \in DOMAIN groups : groups[i].dest = op.dest
    THEN [ i \in DOMAIN groups |->
             IF groups[i].dest = op.dest
             THEN [groups[i] EXCEPT !.ops = Append(@, op.id)]
             ELSE groups[i] ]
    ELSE Append(groups, [dest |-> op.dest, ops |-> <<op.id>>])

\* for (const op of operations) { ... }: the groups in order of first use.
RECURSIVE GroupOps(_, _)
GroupOps(ops, groups) ==
    IF ops = <<>> THEN groups
    ELSE GroupOps(Tail(ops), AddToGroups(groups, Head(ops)))

\* finally { operations.length = 0 }
ClearQueue(queue) == <<>>

\* execute() of part_000 returns or throws: the finally block runs.
Finish(gs, g, result) ==
    /\ exec' = [pc |-> "finished", groups |-> gs, g |-> g, result |-> result]
    /\ operations' = ClearQueue(operations)

\* execute() of src/rqlink.js returns or throws: nothing else happens.
LegacyFinish(gs, g, result) ==
    /\ exec' = [pc |-> "finished", groups |-> gs, g |-> g, result |-> result]
    /\ operations' = operations

ExecuteEnds(gs, g, result) ==
    IF source = "part_000" THEN Finish(gs, g, result) ELSE LegacyFinish(gs, g, result)

\* await rqliteRequest(g.baseUrls, g.port, "...transaction...", g.ops, g.auth)
IssueRequest(gs, g) ==
    /\ exec' = [pc |-> "awaiting", groups |-> gs, g |-> g, result |-> "none"]
    /\ sentOps' = Append(sentOps, gs[g])
    /\ UNCHANGED operations

\* builder.<table>.create / update / delete: operations.push(...)
Queue ==
    /\ nextOp <= MaxQueued
    /\ \E d \in Dests : operations' = Append(operations, [id |-> nextOp, dest |-> d])
    /\ nextOp' = nextOp + 1
    /\ UNCHANGED <<exec, other, sentOps, executes>>
    /\ UNCHANGED <<sendVars, cacheVars, compileVars, migrateVars>>

\* execute() from its call to its first await, or to its return if no group.
Execute ==
    /\ exec.pc = "idle"
    /\ executes < MaxExecutes
    /\ executes' = executes + 1
    /\ LET gs == GroupOps(operations, <<>>)
       IN  IF gs = <<>>
           THEN ExecuteEnds(gs, 0, "returned") /\ UNCHANGED sentOps
           ELSE IssueRequest(gs, 1)
    /\ UNCHANGED <<nextOp, other>>
    /\ UNCHANGED <<sendVars, cacheVars, compileVars, migrateVars>>

\* The awaited request returns: on to the next group, or return results.
RequestReturns ==
    /\ exec.pc = "awaiting"
    /\ IF exec.g < Len(exec.groups)
       THEN IssueRequest(exec.groups, exec.g + 1)
       ELSE ExecuteEnds(exec.groups, exec.g, "returned") /\ UNCHANGED sentOps
    /\ UNCHANGED <<nextOp, executes, other>>
    /\ UNCHANGED <<sendVars, cacheVars, compileVars, migrateVars>>

\* The awaited request throws: execute() throws.
RequestThrows ==
    /\ exec.pc = "awaiting"
    /\ ExecuteEnds(exec.groups, exec.g, "threw")
    /\ UNCHANGED <<sentOps, nextOp, executes, other>>
    /\ UNCHANGED <<sendVars, cacheVars, compileVars, migrateVars>>

\* The caller's await of execute() settles.
ExecuteSettles ==
    /\ exec.pc = "finished"
    /\ exec' = ExecIdle
    /\ UNCHANGED <<operations, sentOps, nextOp, executes, other>>
    /\ UNCHANGED <<sendVars, cacheVars, compileVars, migrateVars>>

\* The overlapping call awaits the request for its group g.
OtherIssues(gs, g) ==
    /\ other' = [pc |-> "awaiting", groups |-> gs, g |-> g, result |-> "none"]
    /\ sentOps' = Append(sentOps, gs[g])
    /\ UNCHANGED operations

\* The overlapping call returns or throws; in part_000 its finally block runs.
OtherEnds(gs, g, result) ==
    /\ other' = [pc |-> "finished", groups |-> gs, g |-> g, result |-> result]
    /\ operations' = IF source = "part_000" THEN ClearQueue(operations) ELSE operations

\* execute() is called again while the first call awaits a request: it
\* groups what is in the queue now.
ExecuteAgain ==
    /\ exec.pc = "awaiting"
    /\ other.pc = "idle"
    /\ executes < MaxExecutes
    /\ executes' = executes + 1
    /\ LET gs == GroupOps(operations, <<>>)
       IN  IF gs = <<>>
           THEN OtherEnds(gs, 0, "returned") /\ UNCHANGED sentOps
           ELSE OtherIssues(gs, 1)
    /\ UNCHANGED <<nextOp, exec>>
    /\ UNCHANGED <<sendVars, cacheVars, compileVars, migrateVars>>

\* The request the overlapping call awaits returns.
OtherRequestReturns ==
    /\ other.pc = "awaiting"
    /\ IF other.g < Len(other.groups)
       THEN OtherIssues(other.groups, other.g + 1)
       ELSE OtherEnds(other.groups, other.g, "returned") /\ UNCHANGED sentOps
    /\ UNCHANGED <<nextOp, executes, exec>>
    /\ UNCHANGED <<sendVars, cacheVars, compileVars, migrateVars>>

\* The request the overlapping call awaits throws.
OtherRequestThrows ==
    /\ other.pc = "awaiting"
    /\ OtherEnds(other.groups, other.g, "threw")
    /\ UNCHANGED <<sentOps, nextOp, executes, exec>>
    /\ UNCHANGED <<sendVars, cacheVars, compileVars, migrateVars>>

\* The caller's await of the overlapping call settles.
OtherSettles ==
    /\ other.pc = "finished"
    /\ other' = ExecIdle
    /\ UNCHANGED <<operations, sentOps, nextOp, executes, exec>>
    /\ UNCHANGED <<sendVars, cacheVars, compileVars, migrateVars>>

----------------------------------------------------------------------------
(* The expression compiler.  A JS object is the sequence of its entries in  *)
(* Object.entries order; SQL text, parameter names and bound values are     *)
(* strings.  A filter is such an object: an entry is                        *)
(*   [key, type, scalar, entries, filters]                                  *)
(* where type is the JS type of the entry's value ("null", "scalar",        *)
(* "object" for an operator object, whose entries are [op, opV, list], and  *)
(* "filters" for the array of OR and the object of NOT).                    *)

\* Array.prototype.join
RECURSIVE join(_, _)
join(parts, sep) ==
    IF parts = <<>> THEN ""
    ELSE IF Len(parts) = 1 THEN parts[1]
    ELSE parts[1] \o sep \o join(Tail(parts), sep)

\* Array.prototype.includes
includes(list, x) == \E i \in DOMAIN list : list[i] = x

\* obj[k] = v on an object: a property the object has keeps its place.
ObjectSet(obj, k, v) ==
    IF \E i \in DOMAIN obj : obj[i].name = k
    THEN [ i \in DOMAIN obj |-> IF obj[i].name = k THEN [name |-> k, value |-> v] ELSE obj[i] ]
    ELSE Append(obj, [name |-> k, value |-> v])

\* Object.assign(target, from)
RECURSIVE ObjectAssign(_, _)
ObjectAssign(target, from) ==
    IF from = <<>> THEN target
    ELSE ObjectAssign(ObjectSet(target, from[1].name, from[1].value), Tail(from))

\* `"${name}"`
quote(name) == "\"" \o name \o "\""

\* Object.keys(cfg.fields) of the table the calls are made on.
fields == <<"id", "n">>

\* A compilation whose counter goes on from where the last one stopped.
CompilingOn ==
    [params |-> <<>>,
     idx |-> IF compiled = <<>> THEN 0 ELSE compiled[Len(compiled)].idx,
     binds |-> 0, error |-> "", text |-> "", parts |-> <<>>, mIdx |-> 0]

\* The compilation under way: the bindings, the counter, the number of values
\* bound so far, the error thrown if any, the text of the last fragment, the
\* `parts` array of the innermost running process(), and update's `mIdx`.
Compiling ==
    [params |-> <<>>, idx |-> 0, binds |-> 0, error |-> "", text |-> "",
     parts |-> <<>>, mIdx |-> 0]

Thrown(c, message) == [c EXCEPT !.error = message]

\* The parameter named by the counter, and the counter left as it is.
addParamSameName(c, val) ==
    LET key == "p_" \o ToString(c.idx)
    IN  [c EXCEPT !.params = ObjectSet(@, key, val),
                  !.binds  = @ + 1,
                  !.text   = ":" \o key]

\* const key = `p_${idx++}`; params[key] = val; return `:${key}`
addParam(c, val) ==
    LET key == "p_" \o ToString(c.idx)
    IN  [c EXCEPT !.params = ObjectSet(@, key, val),
                  !.idx    = @ + 1,
                  !.binds  = @ + 1,
                  !.text   = ":" \o key]

\* parts.push(`${qk} <op> ${addParam(val)}`)
PushComparison(c, qk, sqlOp, val) ==
    LET r == addParam(c, val)
    IN  [r EXCEPT !.parts = Append(@, qk \o sqlOp \o r.text)]

\* opV.map(v => addParam(v)).join(", "), from element j on
RECURSIVE AddParams(_, _, _, _)
AddParams(c, list, j, texts) ==
    IF j > Len(list) THEN [c EXCEPT !.text = join(texts, ", ")]
    ELSE LET r == addParam(c, list[j])
         IN  AddParams(r, list, j + 1, Append(texts, r.text))

\* case "in": an IN over the placeholders of the list, however short.
PushInAlways(c, qk, list) ==
    LET r == AddParams(c, list, 1, <<>>)
    IN  [r EXCEPT !.parts = Append(@, qk \o " IN (" \o r.text \o ")")]

\* case "in"
PushIn(c, qk, list) ==
    IF Len(list) = 0
    THEN [c EXCEPT !.parts = Append(@, "1=0")]
    ELSE LET r == AddParams(c, list, 1, <<>>)
         IN  [r EXCEPT !.parts = Append(@, qk \o " IN (" \o r.text \o ")")]

\* switch (op) { ... } for one entry of an operator object
Operator(c, qk, e) ==
    CASE e.op = "equals"     -> PushComparison(c, qk, " = ", e.opV)
      [] e.op = "not"        -> PushComparison(c, qk, " != ", e.opV)
      [] e.op = "gt"         -> PushComparison(c, qk, " > ", e.opV)
      [] e.op = "gte"        -> PushComparison(c, qk, " >= ", e.opV)
      [] e.op = "lt"         -> PushComparison(c, qk, " < ", e.opV)
      [] e.op = "lte"        -> PushComparison(c, qk, " <= ", e.opV)
      [] e.op = "contains"   -> PushComparison(c, qk, " LIKE ", "%" \o e.opV \o "%")
      [] e.op = "startsWith" -> PushComparison(c, qk, " LIKE ", e.opV \o "%")
      [] e.op = "endsWith"   -> PushComparison(c, qk, " LIKE ", "%" \o e.opV)
      [] e.op = "in"         -> PushIn(c, qk, e.list)
      [] OTHER               -> Thrown(c, "Unknown operator: " \o e.op)

\* for (const [op, opV] of Object.entries(val)) { switch ... }, from entry j on
RECURSIVE Operators(_, _, _, _)
Operators(c, qk, entries, j) ==
    IF c.error # "" \/ j > Len(entries) THEN c
    ELSE Operators(Operator(c, qk, entries[j]), qk, entries, j + 1)

\* A key that is a field of the table, with its value.
Field(c, e) ==
    LET qk == quote(e.key)
    IN  CASE e.type = "null"   -> [c EXCEPT !.parts = Append(@, qk \o " IS NULL")]
          [] e.type = "scalar" -> PushComparison(c, qk, " = ", e.scalar)
          [] OTHER             -> Operators(c, qk, e.entries, 1)

RECURSIVE process(_, _, _)
RECURSIVE ProcessEntries(_, _, _, _)
RECURSIVE ProcessEntry(_, _, _)
RECURSIVE ProcessEach(_, _, _, _, _)

\* val.map(v => process(v)).join(" OR "), from element j on
ProcessEach(c, list, j, texts, availableFields) ==
    IF c.error # "" THEN c
    ELSE IF j > Len(list) THEN [c EXCEPT !.text = join(texts, " OR ")]
    ELSE LET r == process(c, list[j], availableFields)
         IN  ProcessEach(r, list, j + 1, Append(texts, r.text), availableFields)

\* The body of process()'s loop for one entry of w.
ProcessEntry(c, e, availableFields) ==
    IF e.key = "OR"
    THEN LET r == ProcessEach(c, e.filters, 1, <<>>, availableFields)
         IN  IF r.error # "" THEN r
             ELSE [r EXCEPT !.parts = Append(@, "(" \o r.text \o ")")]
    ELSE IF e.key = "NOT"
    THEN LET r == process(c, e.filters[1], availableFields)
         IN  IF r.error # "" THEN r
             ELSE [r EXCEPT !.parts = Append(@, "NOT (" \o r.text \o ")")]
    ELSE IF ~includes(availableFields, e.key)
    THEN Thrown(c, "Field " \o quote(e.key) \o " not found in schema")
    ELSE Field(c, e)

\* for (const [key, val] of Object.entries(w)) { ... }, from entry i on
ProcessEntries(c, w, i, availableFields) ==
    IF c.error # "" \/ i > Len(w) THEN c
    ELSE ProcessEntries(ProcessEntry(c, w[i], availableFields), w, i + 1,
                        availableFields)

\* process(w): its own parts array, joined with AND at the end.
process(c, w, availableFields) ==
    LET r == ProcessEntries([c EXCEPT !.parts = <<>>], w, 1, availableFields)
    IN  [r EXCEPT !.text = join(r.parts, " AND "), !.parts = c.parts]

\* buildWhere(where, availableFields) of part_000
buildWhere(where, availableFields) ==
    IF where = <<>>
    THEN [Compiling EXCEPT !.text = "1=1"]
    ELSE process(Compiling, where, availableFields)

\* src/rqlink.js: const name = `${paramPrefix}_${paramIdx++}`; params[name] = val
LegacyAddParam(c, paramPrefix, val) ==
    LET name == paramPrefix \o "_" \o ToString(c.idx)
    IN  [c EXCEPT !.params = ObjectSet(@, name, val),
                  !.idx    = @ + 1,
                  !.binds  = @ + 1,
                  !.text   = ":" \o name]

\* `${key} <op> ${addParam(val)}`
LegacyComparison(c, paramPrefix, key, sqlOp, val) ==
    LET r == LegacyAddParam(c, paramPrefix, val)
    IN  [r EXCEPT !.text = key \o sqlOp \o r.text]

\* opVal.map(v => addParam(v)), from element j on
RECURSIVE LegacyAddParams(_, _, _, _, _)
LegacyAddParams(c, paramPrefix, list, j, inParams) ==
    IF j > Len(list) THEN [c EXCEPT !.text = join(inParams, ", ")]
    ELSE LET r == LegacyAddParam(c, paramPrefix, list[j])
         IN  LegacyAddParams(r, paramPrefix, list, j + 1, Append(inParams, r.text))

\* case "in" of src/rqlink.js
LegacyIn(c, paramPrefix, key, list) ==
    IF Len(list) = 0
    THEN [c EXCEPT !.text = "1=0"]
    ELSE LET r == LegacyAddParams(c, paramPrefix, list, 1, <<>>)
         IN  [r EXCEPT !.text = key \o " IN (" \o r.text \o ")"]

\* switch (op) { ... } of src/rqlink.js: the sub-clause, or the throw
LegacyOperator(c, paramPrefix, key, e) ==
    CASE e.op = "equals"     -> LegacyComparison(c, paramPrefix, key, " = ", e.opV)
      [] e.op = "not"        -> LegacyComparison(c, paramPrefix, key, " != ", e.opV)
      [] e.op = "gt"         -> LegacyComparison(c, paramPrefix, key, " > ", e.opV)
      [] e.op = "gte"        -> LegacyComparison(c, paramPrefix, key, " >= ", e.opV)
      [] e.op = "lt"         -> LegacyComparison(c, paramPrefix, key, " < ", e.opV)
      [] e.op = "lte"        -> LegacyComparison(c, paramPrefix, key, " <= ", e.opV)
      [] e.op = "contains"   -> LegacyComparison(c, paramPrefix, key, " LIKE ", "%" \o e.opV \o "%")
      [] e.op = "startsWith" -> LegacyComparison(c, paramPrefix, key, " LIKE ", e.opV \o "%")
      [] e.op = "endsWith"   -> LegacyComparison(c, paramPrefix, key, " LIKE ", "%" \o e.opV)
      [] e.op = "in"         -> LegacyIn(c, paramPrefix, key, e.list)
      [] OTHER               -> Thrown(c, "Unknown operator " \o e.op \o " for field " \o key)

\* for (const [op, opVal] of Object.entries(val)) { ... }; subClauses.join(" AND ")
RECURSIVE LegacyOperators(_, _, _, _, _, _)
LegacyOperators(c, paramPrefix, key, entries, j, subClauses) ==
    IF c.error # "" THEN c
    ELSE IF j > Len(entries) THEN [c EXCEPT !.text = join(subClauses, " AND ")]
    ELSE LET r == LegacyOperator(c, paramPrefix, key, entries[j])
         IN  LegacyOperators(r, paramPrefix, key, entries, j + 1,
                             Append(subClauses, r.text))

RECURSIVE LegacyBuildWhere(_, _, _)
RECURSIVE LegacyOrClauses(_, _, _, _, _, _)
RECURSIVE processCondition(_, _, _, _)
RECURSIVE LegacyConditions(_, _, _, _, _)

\* The caller's state after buildWhere(subWhere, availableFields, prefix) ran
\* under it: paramIdx++ for the prefix, Object.assign(params, subParams).
LegacySub(c, subWhere, availableFields, prefix) ==
    LET sub == LegacyBuildWhere(subWhere, availableFields, prefix \o ToString(c.idx))
    IN  [c EXCEPT !.idx    = @ + 1,
                  !.params = ObjectAssign(@, sub.params),
                  !.binds  = @ + sub.binds,
                  !.error  = sub.error,
                  !.text   = sub.text]

\* val.map(subWhere => { ... return `(${clause})` }), from element j on
LegacyOrClauses(c, list, j, orClauses, availableFields, paramPrefix) ==
    IF c.error # "" THEN c
    ELSE IF j > Len(list) THEN [c EXCEPT !.text = "(" \o join(orClauses, " OR ") \o ")"]
    ELSE LET r == LegacySub(c, list[j], availableFields, paramPrefix \o "_or")
         IN  LegacyOrClauses(r, list, j + 1, Append(orClauses, "(" \o r.text \o ")"),
                             availableFields, paramPrefix)

\* processCondition(key, val) of src/rqlink.js
processCondition(c, e, availableFields, paramPrefix) ==
    IF e.key = "OR"
    THEN LegacyOrClauses(c, e.filters, 1, <<>>, availableFields, paramPrefix)
    ELSE IF e.key = "NOT"
    THEN LET r == LegacySub(c, e.filters[1], availableFields, paramPrefix \o "_not")
         IN  [r EXCEPT !.text = "NOT (" \o r.text \o ")"]
    ELSE IF ~includes(availableFields, e.key)
    THEN Thrown(c, "Unknown field in where: " \o e.key)
    ELSE CASE e.type = "null"   -> [c EXCEPT !.text = e.key \o " IS NULL"]
           [] e.type = "scalar" -> LegacyComparison(c, paramPrefix, e.key, " = ", e.scalar)
           [] OTHER             -> LegacyOperators(c, paramPrefix, e.key, e.entries, 1, <<>>)

\* for (const [key, val] of Object.entries(where)) conditions.push(...)
LegacyConditions(c, where, i, availableFields, paramPrefix) ==
    IF c.error # "" \/ i > Len(where) THEN c
    ELSE LET r == processCondition(c, where[i], availableFields, paramPrefix)
         IN  LegacyConditions(IF r.error # "" THEN r
                              ELSE [r EXCEPT !.parts = Append(@, r.text)],
                              where, i + 1, availableFields, paramPrefix)

\* buildWhere(where, availableFields, paramPrefix = "w") of src/rqlink.js
LegacyBuildWhere(where, availableFields, paramPrefix) ==
    IF where = <<>>
    THEN [Compiling EXCEPT !.text = "1=1"]
    ELSE LET r == LegacyConditions(Compiling, where, 1, availableFields, paramPrefix)
         IN  [r EXCEPT !.text = join(r.parts, " AND ")]

\* The letters of the strings used here.
Lower == "abcdefghijklmnopqrstuvwxyz"
Upper == "ABCDEFGHIJKLMNOPQRSTUVWXYZ"

\* String.prototype.includes
Contains(str, pat) ==
    \E i \in 1..(Len(str) - Len(pat) + 1) : SubSeq(str, i, i + Len(pat) - 1) = pat

\* String.prototype.toUpperCase, character by character
RECURSIVE toUpperCase(_)
toUpperCase(str) ==
    IF str = "" THEN ""
    ELSE LET ch == SubSeq(str, 1, 1)
             up == IF Contains(Lower, ch)
                   THEN LET i == CHOOSE k \in 1..Len(Lower) : SubSeq(Lower, k, k) = ch
                        IN  SubSeq(Upper, i, i)
                   ELSE ch
         IN  up \o toUpperCase(SubSeq(str, 2, Len(str)))

\* /^[a-zA-Z0-9_"()+\-*/\s:.]+$/.test(expr); \s is taken as space, tab, line
\* feed, carriage return and form feed.
MATH_SAFE_REGEX(expr) ==
    /\ Len(expr) > 0
    /\ \A i \in 1..Len(expr) :
         Contains(Lower \o Upper \o "0123456789" \o "_\"()+-*/:. \t\n\r\f", SubSeq(expr, i, i))

MATH_BLOCKED_PATTERNS ==
    <<";", "--", "/*", "*/", "UNION", "SELECT", "INSERT", "DELETE", "DROP",
      "UPDATE", "CREATE", "ALTER", "EXEC", "EXECUTE">>

\* The blocklist matched against the expression as written.
validateMathExpressionAsWritten(expr) ==
    /\ MATH_SAFE_REGEX(expr)
    /\ ~(\E i \in DOMAIN MATH_BLOCKED_PATTERNS : Contains(expr, MATH_BLOCKED_PATTERNS[i]))

\* validateMathExpression(expr)
validateMathExpression(expr) ==
    /\ MATH_SAFE_REGEX(expr)
    /\ LET upperExpr == toUpperCase(expr)
       IN  ~(\E i \in DOMAIN MATH_BLOCKED_PATTERNS :
                 Contains(upperExpr, MATH_BLOCKED_PATTERNS[i]))

\* expr.replace(new RegExp(`:${ak}\\b`, 'g'), `:${pName}`): every `:ak` that
\* is not followed by a letter, a digit or an underscore.
RECURSIVE ReplaceArg(_, _, _)
ReplaceArg(expr, ak, pName) ==
    LET pat  == ":" \o ak
        n    == Len(pat)
        next == SubSeq(expr, n + 1, n + 1)
    IN  IF expr = "" THEN ""
        ELSE IF /\ Len(expr) >= n
                /\ SubSeq(expr, 1, n) = pat
                /\ (Len(expr) = n \/ ~Contains(Lower \o Upper \o "0123456789" \o "_", next))
        THEN ":" \o pName \o ReplaceArg(SubSeq(expr, n + 1, Len(expr)), ak, pName)
        ELSE SubSeq(expr, 1, 1) \o ReplaceArg(SubSeq(expr, 2, Len(expr)), ak, pName)

\* update's data: an entry is [c, type, val, math, args], type being
\* "literal", "increment" or "math"; args is the object of the math arguments.

\* for (const [ak, av] of Object.entries(val.args)) { ... }, from entry j on;
\* c.text is `expr`.
RECURSIVE MathArgs(_, _, _, _)
MathArgs(c, col, args, j) ==
    IF j > Len(args) THEN c
    ELSE LET pName == "m_" \o col \o "_" \o ToString(c.mIdx)
         IN  MathArgs([c EXCEPT !.mIdx   = @ + 1,
                                !.text   = ReplaceArg(@, args[j].name, pName),
                                !.params = ObjectSet(@, pName, args[j].value),
                                !.binds  = @ + 1],
                      col, args, j + 1)

\* The body of update's loop over Object.entries(data), for one entry.
Assignment(c, e) ==
    LET qCol == quote(e.c)
    IN  CASE e.type = "increment" ->
               [c EXCEPT !.params = ObjectSet(@, "d_" \o e.c, e.val),
                         !.binds  = @ + 1,
                         !.parts  = Append(@, qCol \o " = " \o qCol \o " + :d_" \o e.c)]
          [] e.type = "math" ->
               IF ~validateMathExpression(e.math)
               THEN Thrown(c, "Unsafe math expression detected. Operation blocked.")
               ELSE LET r == MathArgs([c EXCEPT !.text = e.math], e.c, e.args, 1)
                    IN  [r EXCEPT !.parts = Append(@, qCol \o " = " \o r.text)]
          [] OTHER ->
               [c EXCEPT !.params = ObjectSet(@, "d_" \o e.c, e.val),
                         !.binds  = @ + 1,
                         !.parts  = Append(@, qCol \o " = :d_" \o e.c)]

\* for (const [c, val] of Object.entries(data)) { ... }, from entry i on
RECURSIVE Assignments(_, _, _)
Assignments(c, data, i) ==
    IF c.error # "" \/ i > Len(data) THEN c
    ELSE Assignments(Assignment(c, data[i]), data, i + 1)

\* quote(tableName) of the table the calls are made on.
qTable == quote("t")

\* update({ where, data }) up to its statement: `UPDATE ... SET ... WHERE ...`
\* followed by `returning`, with the bindings; or the state at the throw.
UpdateStatement(where, data, returning) ==
    LET w == buildWhere(where, fields)
        r == Assignments([w EXCEPT !.parts = <<>>], data, 1)
    IN  IF w.error # "" THEN w
        ELSE IF r.error # "" THEN r
        ELSE [r EXCEPT !.text = "UPDATE " \o qTable \o " SET " \o join(r.parts, ", ")
                                  \o " WHERE " \o w.text \o returning]

\* src/rqlink.js, update: the loop over Object.entries(val.args), from j on
RECURSIVE LegacyMathArgs(_, _, _, _)
LegacyMathArgs(c, col, args, j) ==
    IF j > Len(args) THEN c
    ELSE LET paramName == "data_math_" \o col \o "_" \o args[j].name \o "_"
                              \o ToString(c.mIdx)
         IN  LegacyMathArgs([c EXCEPT !.mIdx   = @ + 1,
                                      !.text   = ReplaceArg(@, args[j].name, paramName),
                                      !.params = ObjectSet(@, paramName, args[j].value),
                                      !.binds  = @ + 1],
                            col, args, j + 1)

\* src/rqlink.js, update: the loop over setCols, from entry i on.  A math
\* expression goes into the statement as it is.
RECURSIVE LegacyAssignments(_, _, _)
LegacyAssignments(c, data, i) ==
    IF i > Len(data) THEN c
    ELSE LET e == data[i]
             paramName == "data_" \o e.c
             r == LegacyMathArgs([c EXCEPT !.text = e.math], e.c, e.args, 1)
         IN  LegacyAssignments(
               CASE e.type = "increment" ->
                      [c EXCEPT !.params = ObjectSet(@, paramName, e.val),
                                !.binds  = @ + 1,
                                !.parts  = Append(@, e.c \o " = " \o e.c \o " + :" \o paramName)]
                 [] e.type = "math" ->
                      [r EXCEPT !.parts = Append(@, e.c \o " = " \o r.text)]
                 [] OTHER ->
                      [c EXCEPT !.params = ObjectSet(@, paramName, e.val),
                                !.binds  = @ + 1,
                                !.parts  = Append(@, e.c \o " = :" \o paramName)],
               data, i + 1)

\* src/rqlink.js, update({ where, data }) up to its statement
LegacyUpdateStatement(where, data) ==
    LET w == LegacyBuildWhere(where, fields, "w")
        r == LegacyAssignments([w EXCEPT !.parts = <<>>], data, 1)
    IN  IF where = <<>> THEN Thrown(Compiling, "update requires where")
        ELSE IF data = <<>> THEN Thrown(Compiling, "update requires data")
        ELSE IF \E i \in DOMAIN data : ~includes(fields, data[i].c)
        THEN LET i == CHOOSE k \in DOMAIN data :
                         /\ ~includes(fields, data[k].c)
                         /\ \A j \in 1..(k - 1) : includes(fields, data[j].c)
             IN  Thrown(Compiling, "Unknown column " \o quote(data[i].c))
        ELSE IF w.error # "" THEN w
        ELSE [r EXCEPT !.text = "UPDATE t SET " \o join(r.parts, ", ") \o " WHERE "
                                  \o LegacyBuildWhere(where, fields, "w").text
                                  \o " RETURNING *;"]

\* An argument that was not given.
Undefined == [n |-> 0, d |-> 0]

\* typeof x === "number"
IsNumber(x) == x.d # 0

\* Number.isInteger(x), for a number kept as the fraction n/d
IsInteger(x) == x.d # 0 /\ x.n % x.d = 0

\* orderBy.map(o => { ... }), from element j on: the throw, or the orders
RECURSIVE Orders(_, _, _, _)
Orders(c, orderBy, j, orders) ==
    IF j > Len(orderBy) THEN [c EXCEPT !.text = join(orders, ", ")]
    ELSE LET d == toUpperCase(orderBy[j].dir)
         IN  IF d # "ASC" /\ d # "DESC"
             THEN Thrown(c, "Invalid order direction. Use 'ASC' or 'DESC'.")
             ELSE Orders(c, orderBy, j + 1, Append(orders, quote(orderBy[j].col) \o " " \o d))

\* findMany({ where, orderBy, limit, offset }) of part_000 up to its statement
FindManyStatement(where, orderBy, limit, offset) ==
    LET w == buildWhere(where, fields)
        o == Orders(w, orderBy, 1, <<>>)
        stmt == "SELECT * FROM " \o qTable \o " WHERE " \o w.text
                 \o (IF orderBy # <<>> THEN " ORDER BY " \o o.text ELSE "")
                 \o (IF limit # Undefined THEN " LIMIT " \o ToString(limit.n \div limit.d) ELSE "")
                 \o (IF offset # Undefined THEN " OFFSET " \o ToString(offset.n \div offset.d) ELSE "")
    IN  IF w.error # "" THEN w
        ELSE IF orderBy # <<>> /\ o.error # "" THEN o
        ELSE IF limit # Undefined /\ (~IsInteger(limit) \/ limit.n < 0)
        THEN Thrown(w, "Invalid limit. Must be a non-negative integer.")
        ELSE IF offset # Undefined /\ (~IsInteger(offset) \/ offset.n < 0)
        THEN Thrown(w, "Invalid offset. Must be a non-negative integer.")
        ELSE [w EXCEPT !.text = stmt]

\* The arguments of the calls made here.  Filter entries:
IsNull(f) ==
    [key |-> f, type |-> "null", scalar |-> "", entries |-> <<>>, filters |-> <<>>]
EqualTo(f, v) ==
    [key |-> f, type |-> "scalar", scalar |-> v, entries |-> <<>>, filters |-> <<>>]
Having(f, entries) ==
    [key |-> f, type |-> "object", scalar |-> "", entries |-> entries, filters |-> <<>>]
Or(list) ==
    [key |-> "OR", type |-> "filters", scalar |-> "", entries |-> <<>>, filters |-> list]
Not(w) ==
    [key |-> "NOT", type |-> "filters", scalar |-> "", entries |-> <<>>, filters |-> <<w>>]
Op(op, opV) == [op |-> op, opV |-> opV, list |-> <<>>]
In(list) == [op |-> "in", opV |-> "", list |-> list]

\* The operators of buildWhere's switch, and one it does not know.
Ops ==
    {"equals", "not", "gt", "gte", "lt", "lte", "contains", "startsWith",
     "endsWith", "like"}

\* The lists given to `in`, the empty one among them.
InLists == { [i \in 1..n |-> "v" \o ToString(i)] : n \in 0..MaxInList }

\* The conditions on one key: "id" and "n" are fields of the table, "ghost" is not.
Leaves ==
    UNION { {IsNull(f), EqualTo(f, "a"),
             Having(f, <<Op("gte", "a"), Op("lte", "b")>>),
             Having(f, <<In(<<>>), Op("equals", "a")>>)}
            \cup { Having(f, <<Op(o, "a")>>) : o \in Ops }
            \cup { Having(f, <<In(l)>>) : l \in InLists }
          : f \in {"id", "n", "ghost"} }

\* Filters without OR and NOT.
Flat ==
    {<<>>} \cup { <<l>> : l \in Leaves }
           \cup { <<l, m>> : l \in {EqualTo("id", "a"), Having("id", <<In(<<>>)>>)},
                             m \in {EqualTo("n", "a"), EqualTo("ghost", "a"),
                                    Having("n", <<Op("like", "a")>>)} }

\* The filters put under OR and NOT, the empty one among them.
Branches ==
    { <<>>, <<EqualTo("id", "a")>>, <<Having("id", <<In(<<>>)>>)>>, <<EqualTo("ghost", "a")>>,
      <<Having("n", <<Op("gt", "a"), Op("like", "b")>>)>> }

\* Filters with OR and NOT nested up to d deep.
RECURSIVE Nested(_)
Nested(d) ==
    IF d = 0 THEN Branches
    ELSE LET below == Nested(d - 1)
         IN  below \cup { <<Or(<<x, y>>)>> : x \in Branches, y \in below }
                   \cup { <<Not(y)>> : y \in below }
                   \cup { <<EqualTo("n", "a"), Or(<<y, <<EqualTo("n", "a")>>>>)>> : y \in below }

\* Filters with an OR of nothing or a field with no operator.
Hollows ==
    { <<Or(<<>>)>>, <<Having("id", <<>>)>>, <<EqualTo("n", "a"), Having("id", <<>>)>>,
      <<Not(<<Or(<<>>)>>)>> }

Filters == Flat \cup Nested(MaxNesting) \cup Hollows

\* Entries of update's data.
Literal(c, v) == [c |-> c, type |-> "literal", val |-> v, math |-> "", args |-> <<>>]
Increment(c, v) == [c |-> c, type |-> "increment", val |-> v, math |-> "", args |-> <<>>]
Math(c, expr, args) == [c |-> c, type |-> "math", val |-> "", math |-> expr, args |-> args]
Arg(name, v) == [name |-> name, value |-> v]

\* Math expressions of whitelisted characters and free of the blocked patterns.
SafeExprs == {"\"n\" + :x", ":x * :xy", "n * 2"}

\* Math expressions with a character off the whitelist (the first three) or
\* with a blocked pattern, in upper, lower or mixed case.
UnsafeExprs ==
    {"1; DROP TABLE users", "n $ :x", "n = :x",
     "n -- :x", "n /* :x", ":x */ n", "1 UNION :x", "(select :x)", "Insert",
     "n delete", "drop", "UpDaTe", "created_at + :x", "alter", "exec", "Execute :x"}

\* The data objects given to update.
Datas ==
    {<<>>}
      \cup { <<a>> : a \in {Literal("n", "5"), Literal("ghost", "5"),
                            Increment("n", "1"), Increment("ghost", "1"),
                            Math("ghost", "n * 2", <<>>)} }
      \cup { <<Math("n", e, <<Arg("x", "1"), Arg("xy", "2")>>)>> : e \in SafeExprs \cup UnsafeExprs }
      \cup { <<Literal("n", "5"), Math("id", e, <<Arg("x", "1")>>)>> : e \in {"1; DROP TABLE users", ":x + 1"} }
      \cup { <<Math("n", ":x * :xy", <<Arg("x", "1"), Arg("xy", "2")>>),
               Math("id", e, <<Arg("x", "3")>>)>> : e \in {"(select :x)", ":x + 1"} }
      \cup { <<Literal("id", "1"), Increment("n", "1")>> }

\* The filters given to update and to findMany.
UpdateWheres ==
    { <<>>, <<EqualTo("id", "a")>>, <<EqualTo("ghost", "a")>>,
      <<Having("id", <<Op("like", "a")>>)>>,
      <<Or(<< <<EqualTo("id", "a")>>, <<EqualTo("id", "a")>> >>)>>,
      <<Not(<<Having("n", <<In(<<>>)>>)>>)>> }

\* orderBy: an array of objects { col: dir }.
OrderBys ==
    { <<>>, <<[col |-> "id", dir |-> "asc"]>>, <<[col |-> "n", dir |-> "DESC"]>>,
      <<[col |-> "id", dir |-> "sideways"]>>,
      <<[col |-> "id", dir |-> "ASC"], [col |-> "n", dir |-> "down"]>> }

\* limit and offset: not given, 0, 5, -1 and 1.5.
Numbers ==
    { Undefined, [n |-> 0, d |-> 1], [n |-> 5, d |-> 1], [n |-> -1, d |-> 1],
      [n |-> 3, d |-> 2] }

\* A call: the method and its arguments.
Call(method, where, data, orderBy, limit, offset) ==
    [api |-> method, where |-> where, data |-> data, orderBy |-> orderBy,
     limit |-> limit, offset |-> offset]

\* The calls made on a table model.  findMany is that of part_000.
ModelCalls ==
    { Call("findMany", w, <<>>, o, l, f) :
        w \in UpdateWheres, o \in OrderBys, l \in Numbers, f \in Numbers }
      \cup { Call("update", w, d, <<>>, Undefined, Undefined) :
               w \in UpdateWheres, d \in Datas }
      \cup { Call(method, w, <<>>, <<>>, Undefined, Undefined) :
               method \in {"delete", "count"}, w \in Filters }

\* The calls made on the table methods of a batch builder of part_000.
BatchCalls ==
    { Call("batch.update", w, d, <<>>, Undefined, Undefined) :
        w \in UpdateWheres, d \in Datas }
      \cup { Call("batch.delete", w, <<>>, <<>>, Undefined, Undefined) : w \in Flat }

\* An operation queued by b.t.create({ data: { n: "5" } }).
QueuedCreate ==
    [id |-> 1, dest |-> "4001|cluster-a",
     sql |-> "INSERT INTO " \o qTable \o " (" \o quote("n") \o ") VALUES (:n);",
     params |-> <<Arg("n", "5")>>]

\* No table is looked at.
NoDatabase == <<>>

\* No initDB call is under way.
InitIdle ==
    [pc |-> "idle", schemaDef |-> <<>>, t |-> 0, step |-> "", i |-> 0,
     existing |-> {}, result |-> "none"]

----------------------------------------------------------------------------
(* The table model and the batch builder's table methods: each call compiles *)
(* its statement and then hands it to the dispatcher, or queues it.         *)

CallIdle == callPc = "idle" /\ Len(compiled) < MaxCalls

\* The synchronous part of a model method is over: it threw, or it awaits
\* fn(baseUrls, port, sql, params, auth).
Hands(fn, c) ==
    /\ built' = c
    /\ compiled' = Append(compiled, c)
    /\ IF c.error # ""
       THEN callPc' = "done" /\ UNCHANGED requests
       ELSE /\ callPc' = "awaiting"
            /\ requests' = Append(requests, [fn |-> fn, sql |-> c.text, params |-> c.params])
    /\ UNCHANGED <<call, operations, nextOp>>

\* A table method of the batch builder is over: it threw, or it pushed the
\* operation and returned the builder.
Pushes(c) ==
    /\ built' = c
    /\ compiled' = Append(compiled, c)
    /\ callPc' = "done"
    /\ IF c.error # ""
       THEN UNCHANGED <<operations, nextOp>>
       ELSE /\ operations' = Append(operations,
                                    [id |-> nextOp, dest |-> "4001|cluster-a",
                                     sql |-> c.text, params |-> c.params])
            /\ nextOp' = nextOp + 1
    /\ UNCHANGED <<call, requests>>

\* buildWhere of the running copy, as the model methods call it.
ModelWhere(where) ==
    IF source = "part_000" THEN buildWhere(where, fields)
    ELSE LegacyBuildWhere(where, fields, "w")

findMany ==
    /\ CallIdle
    /\ call.api = "findMany"
    /\ source = "part_000"
    /\ Hands("querySQL", FindManyStatement(call.where, call.orderBy, call.limit, call.offset))
    /\ UNCHANGED <<exec, other, sentOps, executes>>
    /\ UNCHANGED <<sendVars, cacheVars, migrateVars>>

update ==
    /\ CallIdle
    /\ call.api = "update"
    /\ Hands("executeSQL",
             IF source = "part_000"
             THEN UpdateStatement(call.where, call.data, " RETURNING *;")
             ELSE LegacyUpdateStatement(call.where, call.data))
    /\ UNCHANGED <<exec, other, sentOps, executes>>
    /\ UNCHANGED <<sendVars, cacheVars, migrateVars>>

delete ==
    /\ CallIdle
    /\ call.api = "delete"
    /\ LET w == ModelWhere(call.where)
       IN  Hands("executeSQL",
                 IF source = "rqlink_js" /\ call.where = <<>>
                 THEN Thrown(Compiling, "delete requires where")
                 ELSE IF w.error # "" THEN w
                 ELSE IF source = "part_000"
                 THEN [w EXCEPT !.text = "DELETE FROM " \o qTable \o " WHERE " \o @ \o ";"]
                 ELSE [w EXCEPT !.text = "DELETE FROM t WHERE " \o @ \o ";"])
    /\ UNCHANGED <<exec, other, sentOps, executes>>
    /\ UNCHANGED <<sendVars, cacheVars, migrateVars>>

count ==
    /\ CallIdle
    /\ call.api = "count"
    /\ LET w == ModelWhere(call.where)
       IN  Hands("querySQL",
                 IF w.error # "" THEN w
                 ELSE IF source = "part_000"
                 THEN [w EXCEPT !.text = "SELECT COUNT(1) AS c FROM " \o qTable
                                           \o " WHERE " \o @ \o ";"]
                 ELSE [w EXCEPT !.text = "SELECT COUNT(1) AS count FROM t WHERE "
                                           \o @ \o ";"])
    /\ UNCHANGED <<exec, other, sentOps, executes>>
    /\ UNCHANGED <<sendVars, cacheVars, migrateVars>>

\* builder.t.update({ where, data }) of part_000
batch_update ==
    /\ CallIdle
    /\ call.api = "batch.update"
    /\ source = "part_000"
    /\ Pushes(UpdateStatement(call.where, call.data, ";"))
    /\ UNCHANGED <<exec, other, sentOps, executes>>
    /\ UNCHANGED <<sendVars, cacheVars, migrateVars>>

\* builder.t.delete({ where }) of part_000
batch_delete ==
    /\ CallIdle
    /\ call.api = "batch.delete"
    /\ source = "part_000"
    /\ LET w == buildWhere(call.where, fields)
       IN  Pushes(IF w.error # "" THEN w
                  ELSE [w EXCEPT !.text = "DELETE FROM " \o qTable \o " WHERE " \o @ \o ";"])
    /\ UNCHANGED <<exec, other, sentOps, executes>>
    /\ UNCHANGED <<sendVars, cacheVars, migrateVars>>

\* The awaited executeSQL / querySQL settles, and with it the method.
Responds ==
    /\ callPc = "awaiting"
    /\ callPc' = "done"
    /\ UNCHANGED <<call, built, requests, compiled>>
    /\ UNCHANGED <<sendVars, cacheVars, batchVars, migrateVars>>

\* The caller goes on after the call.
CallReturns ==
    /\ callPc = "done"
    /\ callPc' = "idle"
    /\ UNCHANGED <<call, built, requests, compiled>>
    /\ UNCHANGED <<sendVars, cacheVars, batchVars, migrateVars>>

----------------------------------------------------------------------------
(* initDB.  A schema is the sequence of its tables in Object.entries order, *)
(* a table its name, port, fields and indexes.  The server is kept as what  *)
(* SQLite holds for each table: whether it exists, its columns in order,    *)
(* its indexes.  A run is at one awaited statement at a time: `init` holds  *)
(* the table (t), the statement (step), the field or index it is about (i), *)
(* and the column names the run works from (existing).                      *)

UsersTable ==
    [tName |-> "users", port |-> "4001",
     fields |-> << [name |-> "id",    type |-> "integer", pk |-> TRUE],
                   [name |-> "name",  type |-> "text",    pk |-> FALSE],
                   [name |-> "email", type |-> "text",    pk |-> FALSE] >>,
     indexes |-> << [name |-> "", columns |-> <<"email">>, unique |-> TRUE],
                    [name |-> "by_name", columns |-> <<"name">>, unique |-> FALSE] >>]

PostsTable ==
    [tName |-> "posts", port |-> "4001",
     fields |-> << [name |-> "id",    type |-> "text", pk |-> TRUE],
                   [name |-> "title", type |-> "text", pk |-> FALSE] >>,
     indexes |-> <<>>]

Schemas == { <<UsersTable>>, <<PostsTable, UsersTable>> }

Absent == [exists |-> FALSE, columns |-> <<>>, indexes |-> {}]

Holding(cols) == [exists |-> TRUE, columns |-> cols, indexes |-> {}]

\* What the server holds when the process starts: tables not made yet, made
\* by an earlier version of the schema, or holding columns the schema lacks.
Databases ==
    [users : {Absent, Holding(<<"id", "name">>),
              Holding(<<"id", "name", "email">>), Holding(<<"id", "old">>)},
     posts : {Absent, Holding(<<"id", "title">>), Holding(<<"old", "title">>)}]

\* quote(name) in src/unnamed/part_000, the bare name in src/rqlink.js
Named(name) == IF source = "part_000" THEN quote(name) ELSE name

\* columnDefSQL(name, def) for a definition of type and pk
columnDefSQL(name, def) ==
    join(<<Named(name), toUpperCase(def.type)>>
           \o (IF def.pk THEN <<"PRIMARY KEY">> ELSE <<>>), " ")

\* `${tName}|${port}`
cacheKey(cfg) == cfg.tName \o "|" \o cfg.port

\* A DROP of the table, whatever the step.
StatementRebuilding(cfg, step, i) ==
    [kind |-> "drop", table |-> cfg.tName, columns |-> <<>>, pk |-> FALSE,
     name |-> "", sql |-> "DROP TABLE IF EXISTS " \o Named(cfg.tName) \o ";"]

\* The statement of a step of the run on table cfg, with what it is about.
Statement(cfg, step, i) ==
    LET tbl == Named(cfg.tName)
        names == [ c \in DOMAIN cfg.fields |-> cfg.fields[c].name ]
        colDefs == [ c \in DOMAIN cfg.fields |->
                       columnDefSQL(cfg.fields[c].name, cfg.fields[c]) ]
    IN  CASE step = "create" ->
               [kind |-> "create", table |-> cfg.tName, columns |-> names,
                pk |-> FALSE, name |-> "",
                sql |-> "CREATE TABLE IF NOT EXISTS " \o tbl
                        \o " (" \o join(colDefs, ", ") \o ");"]
          [] step = "pragma" ->
               [kind |-> "pragma", table |-> cfg.tName, columns |-> <<>>,
                pk |-> FALSE, name |-> "",
                sql |-> "PRAGMA table_info(" \o tbl \o ")"]
          [] step = "alter" ->
               [kind |-> "alter", table |-> cfg.tName, columns |-> <<names[i]>>,
                pk |-> cfg.fields[i].pk, name |-> "",
                sql |-> "ALTER TABLE " \o tbl \o " ADD COLUMN " \o colDefs[i] \o ";"]
          [] step = "index" ->
               LET idx == cfg.indexes[i]
                   name == IF idx.name # "" THEN idx.name
                           ELSE "idx_" \o cfg.tName \o "_" \o join(idx.columns, "_")
                   cols == [ k \in DOMAIN idx.columns |-> Named(idx.columns[k]) ]
               IN  [kind |-> "index", table |-> cfg.tName, columns |-> idx.columns,
                    pk |-> FALSE, name |-> name,
                    sql |-> "CREATE " \o (IF idx.unique THEN "UNIQUE" ELSE "")
                            \o " INDEX IF NOT EXISTS " \o Named(name) \o " ON "
                            \o tbl \o " (" \o join(cols, ", ") \o ");"]

\* SQLite answers the statement with an error: a column added to no table,
\* added twice or added as PRIMARY KEY, an index on a column that is not there.
Rejects(d, s) ==
    \/ /\ s.kind = "alter"
       /\ \/ ~d[s.table].exists
          \/ includes(d[s.table].columns, s.columns[1])
          \/ s.pk
    \/ /\ s.kind = "index"
       /\ \/ ~d[s.table].exists
          \/ \E k \in DOMAIN s.columns : ~includes(d[s.table].columns, s.columns[k])

\* What the server holds once it has run the statement.
Applied(d, s) ==
    IF Rejects(d, s) THEN d
    ELSE CASE s.kind = "create" ->
                IF d[s.table].exists THEN d
                ELSE [d EXCEPT ![s.table] = Holding(s.columns)]
           [] s.kind = "alter" ->
                [d EXCEPT ![s.table].columns = Append(@, s.columns[1])]
           [] s.kind = "index" ->
                [d EXCEPT ![s.table].indexes = @ \cup {s.name}]
           [] OTHER -> d

\* Where the run is once the indexes of table t from index `from` on are done
\* with: at the next index (src/rqlink.js passes over one without columns),
\* else at the next table's CREATE TABLE, else at `return true`.
AfterIndexes(schemaDef, t, from) ==
    LET cfg == schemaDef[t]
        left == { k \in from..Len(cfg.indexes) :
                    source = "rqlink_js" => cfg.indexes[k].columns # <<>> }
    IN  IF left # {}
        THEN [t |-> t, step |-> "index",
              i |-> CHOOSE k \in left : \A o \in left : k <= o]
        ELSE IF t < Len(schemaDef)
        THEN [t |-> t + 1, step |-> "create", i |-> 0]
        ELSE [t |-> t, step |-> "return", i |-> 0]

\* Where the run is once the fields of table t from field `from` on are done
\* with: at the ALTER for the next one `existing` lacks, else at the indexes.
AfterColumns(schemaDef, t, from, existing) ==
    LET cfg == schemaDef[t]
        missing == { c \in from..Len(cfg.fields) : cfg.fields[c].name \notin existing }
    IN  IF missing # {}
        THEN [t |-> t, step |-> "alter",
              i |-> CHOOSE c \in missing : \A o \in missing : c <= o]
        ELSE AfterIndexes(schemaDef, t, 1)

\* The run goes on to position p: it sends the statement there and awaits
\* it, or returns true.
Goes(p, existing) ==
    IF p.step = "return"
    THEN /\ init' = [init EXCEPT !.pc = "done", !.result = "returned"]
         /\ issued' = issued
    ELSE /\ init' = [init EXCEPT !.pc = "awaiting", !.t = p.t, !.step = p.step,
                                 !.i = p.i, !.existing = existing]
         /\ issued' = Append(issued,
                        [run |-> Len(runs) + 1,
                         stmt |-> Statement(init.schemaDef[p.t], p.step, p.i)])

\* The awaited call throws and initDB with it.
Throws(result) ==
    /\ init' = [init EXCEPT !.pc = "done", !.result = result]
    /\ issued' = issued

\* `if (verbose) CONFIG.verbose = true` in src/unnamed/part_000,
\* `if (verbose) configure({ verbose: true })` in src/rqlink.js
SetVerbose(config, verbose) ==
    IF verbose THEN [config EXCEPT !.verbose = TRUE] ELSE config

\* initDB(schemaDef, verbose): up to the first await.
initDB ==
    /\ init.pc = "idle"
    /\ Len(runs) < MaxRuns
    /\ \E verbose \in BOOLEAN : CONFIG' = SetVerbose(CONFIG, verbose)
    /\ Goes([t |-> 1, step |-> "create", i |-> 0], {})
    /\ UNCHANGED <<db, runs, race>>
    /\ UNCHANGED <<requestVars, cacheVars, batchVars, compileVars>>

\* The server runs the awaited statement and answers it; initDB goes on to
\* its next await or to its end.
StatementReturns ==
    /\ init.pc = "awaiting"
    /\ LET s == issued[Len(issued)].stmt
           cfg == init.schemaDef[init.t]
           key == cacheKey(cfg)
           pragma == [t |-> init.t, step |-> "pragma", i |-> 0]
       IN  /\ ~Rejects(db, s)
           /\ db' = Applied(db, s)
           /\ CASE init.step = "create" ->
                     IF source = "part_000"
                     THEN LET info == getCachedSchemaResult(schemaCache, key, now)
                          IN  /\ schemaCache' = getCachedSchema(schemaCache, key, now)
                              /\ IF info.hit
                                 THEN Goes(AfterColumns(init.schemaDef, init.t, 1,
                                                        Range(info.data)),
                                           Range(info.data))
                                 ELSE Goes(pragma, {})
                     ELSE /\ schemaCache' = schemaCache
                          /\ Goes(pragma, {})
                [] init.step = "pragma" ->
                     LET info == db[s.table].columns
                     IN  /\ schemaCache' = IF source = "part_000"
                                           THEN setCachedSchema(schemaCache, key, info, now)
                                           ELSE schemaCache
                         /\ Goes(AfterColumns(init.schemaDef, init.t, 1, Range(info)),
                                 Range(info))
                [] init.step = "alter" ->
                     /\ schemaCache' = IF source = "part_000"
                                       THEN invalidateCache(schemaCache, key)
                                       ELSE schemaCache
                     /\ Goes(AfterColumns(init.schemaDef, init.t, init.i + 1,
                                          init.existing),
                             init.existing)
                [] init.step = "index" ->
                     /\ schemaCache' = schemaCache
                     /\ Goes(AfterIndexes(init.schemaDef, init.t, init.i + 1),
                             init.existing)
    /\ UNCHANGED <<runs, race, now, ticks, cacheOps, ret, lastRead>>
    /\ UNCHANGED <<sendVars, batchVars, compileVars>>

\* The awaited call throws: the server answered with an error, or no answer
\* came (and then the statement may have run all the same).  src/rqlink.js
\* catches what its ALTER throws and goes on to the next field.
StatementFails ==
    /\ init.pc = "awaiting"
    /\ LET s == issued[Len(issued)].stmt
       IN  \E lost \in BOOLEAN, ran \in BOOLEAN :
             /\ lost \/ Rejects(db, s)
             /\ ran => lost
             /\ db' = IF ran THEN Applied(db, s) ELSE db
             /\ IF source = "rqlink_js" /\ init.step = "alter"
                THEN Goes(AfterColumns(init.schemaDef, init.t, init.i + 1,
                                       init.existing),
                          init.existing)
                ELSE Throws(IF lost THEN "unreachable" ELSE "rejected")
    /\ UNCHANGED <<runs, race>>
    /\ UNCHANGED <<sendVars, cacheVars, batchVars, compileVars>>

\* The caller has the promise settled and may call initDB again.
InitDBSettles ==
    /\ init.pc = "done"
    /\ runs' = Append(runs, init.result)
    /\ init' = [InitIdle EXCEPT !.schemaDef = init.schemaDef]
    /\ UNCHANGED <<db, issued, race>>
    /\ UNCHANGED <<sendVars, cacheVars, batchVars, compileVars>>

----------------------------------------------------------------------------
(* initDB calls that run at the same time.  The calls are made with the one *)
(* schema <<UsersTable>>, none awaiting the other (two requests of a server *)
(* process, two workers' start-up).  A statement is on its way to the server*)
(* ("sent"), then run by the server with its answer on the way back         *)
(* ("answered"), then the answer resumes the call that awaits it; answers   *)
(* come over connections of their own and in any order.  `added` keeps the  *)
(* columns whose ALTER has returned to its call, `started` counts the calls,*)
(* and `later` marks a call made when no other was under way and a column   *)
(* had been added, until another call is made; `overlapped` says that a     *)
(* call was made while another was under way.                               *)

Racers == {"a", "b"}

RacerIdle ==
    [pc |-> "idle", step |-> "", i |-> 0, existing |-> {},
     answer |-> [error |-> FALSE, info |-> <<>>], result |-> "none",
     later |-> FALSE]

RaceIdle ==
    [runs |-> [r \in Racers |-> RacerIdle], added |-> {}, started |-> 0,
     overlapped |-> FALSE]

\* Call r goes on to position p: it sends the statement there and awaits it,
\* or returns true.
RaceGoes(rc, r, p, existing) ==
    IF p.step = "return"
    THEN [rc EXCEPT !.runs[r].pc = "done", !.runs[r].result = "returned"]
    ELSE [rc EXCEPT !.runs[r].pc = "sent", !.runs[r].step = p.step,
                    !.runs[r].i = p.i, !.runs[r].existing = existing]

\* The statement call r awaits.
Awaited(r) == Statement(UsersTable, race.runs[r].step, race.runs[r].i)

\* initDB(schemaDef, verbose): up to the first await.
RaceInitDB(r) ==
    /\ source = "part_000"
    /\ race.runs[r].pc = "idle"
    /\ race.started < MaxStarts
    /\ LET alone == \A o \in Racers : race.runs[o].pc = "idle"
           begun == [race EXCEPT
                       !.started = @ + 1,
                       !.overlapped = @ \/ ~alone,
                       !.runs = [o \in Racers |->
                                   [@[o] EXCEPT !.later = (o = r /\ alone
                                                            /\ race.added # {})]]]
       IN  race' = RaceGoes(begun, r, [t |-> 1, step |-> "create", i |-> 0], {})
    /\ \E verbose \in BOOLEAN : CONFIG' = SetVerbose(CONFIG, verbose)
    /\ UNCHANGED <<db, init, issued, runs>>
    /\ UNCHANGED <<requestVars, cacheVars, batchVars, compileVars>>

\* The server runs the statement of call r; its answer is on the way.
ServerAnswers(r) ==
    /\ race.runs[r].pc = "sent"
    /\ LET s == Awaited(r)
       IN  /\ db' = Applied(db, s)
           /\ race' = [race EXCEPT
                         !.runs[r].pc = "answered",
                         !.runs[r].answer =
                            [error |-> Rejects(db, s),
                             info |-> IF s.kind = "pragma"
                                      THEN db[s.table].columns ELSE <<>>]]
    /\ UNCHANGED <<init, issued, runs>>
    /\ UNCHANGED <<sendVars, cacheVars, batchVars, compileVars>>

\* The answer resumes call r: it throws on an error, else goes on to its
\* next await or to its end.
AnswerArrives(r) ==
    /\ race.runs[r].pc = "answered"
    /\ LET run == race.runs[r]
           key == cacheKey(UsersTable)
           schemaDef == <<UsersTable>>
           pragma == [t |-> 1, step |-> "pragma", i |-> 0]
       IN  IF run.answer.error
           THEN /\ race' = [race EXCEPT !.runs[r].pc = "done",
                                        !.runs[r].result = "rejected"]
                /\ schemaCache' = schemaCache
           ELSE CASE run.step = "create" ->
                       LET info == getCachedSchemaResult(schemaCache, key, now)
                       IN  /\ schemaCache' = getCachedSchema(schemaCache, key, now)
                           /\ race' = IF info.hit
                                      THEN RaceGoes(race, r,
                                              AfterColumns(schemaDef, 1, 1, Range(info.data)),
                                              Range(info.data))
                                      ELSE RaceGoes(race, r, pragma, {})
                  [] run.step = "pragma" ->
                       LET info == run.answer.info
                       IN  /\ schemaCache' = setCachedSchema(schemaCache, key, info, now)
                           /\ race' = RaceGoes(race, r,
                                         AfterColumns(schemaDef, 1, 1, Range(info)),
                                         Range(info))
                  [] run.step = "alter" ->
                       /\ schemaCache' = invalidateCache(schemaCache, key)
                       /\ race' = RaceGoes(
                                     [race EXCEPT !.added =
                                         @ \cup {UsersTable.fields[run.i].name}],
                                     r,
                                     AfterColumns(schemaDef, 1, run.i + 1, run.existing),
                                     run.existing)
                  [] run.step = "index" ->
                       /\ schemaCache' = schemaCache
                       /\ race' = RaceGoes(race, r,
                                     AfterIndexes(schemaDef, 1, run.i + 1),
                                     run.existing)
    /\ UNCHANGED <<db, init, issued, runs>>
    /\ UNCHANGED <<now, ticks, cacheOps, ret, lastRead>>
    /\ UNCHANGED <<sendVars, batchVars, compileVars>>

\* No answer comes to call r: the awaited call throws and initDB with it.
AnswerLost(r) ==
    /\ race.runs[r].pc \in {"sent", "answered"}
    /\ race' = [race EXCEPT !.runs[r].pc = "done", !.runs[r].result = "unreachable"]
    /\ UNCHANGED <<db, init, issued, runs>>
    /\ UNCHANGED <<sendVars, cacheVars, batchVars, compileVars>>

\* The caller of call r has the promise settled.
RaceSettles(r) ==
    /\ race.runs[r].pc = "done"
    /\ race' = [race EXCEPT !.runs[r] = [RacerIdle EXCEPT !.later = race.runs[r].later]]
    /\ UNCHANGED <<db, init, issued, runs>>
    /\ UNCHANGED <<sendVars, cacheVars, batchVars, compileVars>>

----------------------------------------------------------------------------
(* Initial states *)

InitCacheIdle ==
    /\ schemaCache = <<>>
    /\ now = 0
    /\ ticks = 0
    /\ cacheOps = 0
    /\ ret = CacheIdle
    /\ lastRead = 0

InitBatchIdle ==
    /\ operations = <<>>
    /\ exec = ExecIdle
    /\ other = ExecIdle
    /\ sentOps = <<>>
    /\ nextOp = 1
    /\ executes = 0

InitCompileIdle ==
    /\ call = Call("", <<>>, <<>>, <<>>, Undefined, Undefined)
    /\ callPc = "idle"
    /\ compiled = <<>>
    /\ built = Compiling
    /\ requests = <<>>

InitMigrateIdle ==
    /\ db = NoDatabase
    /\ init = InitIdle
    /\ issued = <<>>
    /\ runs = <<>>
    /\ race = RaceIdle

\* No rqliteRequest call is under way.
InitCallIdle ==
    /\ net = [u \in Endpoints |-> "refused"]
    /\ pc = "idle"
    /\ api = ""
    /\ sql = <<>>
    /\ levelOverride = "null"
    /\ path = ExecutePath
    /\ baseUrls = <<>>
    /\ urls = <<>>
    /\ payloadLen = 0
    /\ iter = 1
    /\ attempt = 0
    /\ lastError = NoError
    /\ wire = <<>>
    /\ outcome = Pending

InitSendIdle ==
    /\ CONFIG = InitialConfig
    /\ InitCallIdle

InitSend ==
    /\ source \in {"part_000", "rqlink_js"}
    /\ InitSendIdle
    /\ InitCacheIdle
    /\ InitBatchIdle
    /\ InitCompileIdle
    /\ InitMigrateIdle

NextSend ==
    \/ configure
    \/ executeSQL
    \/ querySQL
    \/ Wake
    \/ FetchRejects
    \/ TimerAborts
    \/ FetchResolves
    \/ BodyResolves
    \/ Settle

SpecSend == InitSend /\ [][NextSend]_vars

\* Write requests, with or without a backoff between attempts.
InitDeliver ==
    /\ source \in {"part_000", "rqlink_js"}
    /\ InitCallIdle
    /\ \E d \in RetryDelays : CONFIG = [InitialConfig EXCEPT !.retryDelay = d]
    /\ InitCacheIdle
    /\ InitBatchIdle
    /\ InitCompileIdle
    /\ InitMigrateIdle

NextDeliver ==
    \/ Request
    \/ Wake
    \/ FetchRejects
    \/ TimerAborts
    \/ FetchResolves
    \/ BodyResolves
    \/ Settle

SpecDeliver == InitDeliver /\ [][NextDeliver]_vars

InitCache ==
    /\ source = "part_000"
    /\ InitSendIdle
    /\ InitBatchIdle
    /\ InitCompileIdle
    /\ InitMigrateIdle
    /\ \E n \in PrefillSizes :
         /\ schemaCache = Prefilled(n)
         /\ now = n
    /\ ticks = 0
    /\ cacheOps = 0
    /\ ret = CacheIdle
    /\ lastRead = 0

NextCache ==
    \/ GetCached
    \/ SetCached
    \/ Invalidate
    \/ Tick

SpecCache == InitCache /\ [][NextCache]_vars

InitBatch ==
    /\ source \in {"part_000", "rqlink_js"}
    /\ InitSendIdle
    /\ InitCacheIdle
    /\ InitBatchIdle
    /\ InitCompileIdle
    /\ InitMigrateIdle

NextBatch ==
    \/ Queue
    \/ Execute
    \/ RequestReturns
    \/ RequestThrows
    \/ ExecuteSettles

SpecBatch == InitBatch /\ [][NextBatch]_vars

\* The same builder with execute() calls that overlap.
NextOverlap ==
    \/ NextBatch
    \/ ExecuteAgain
    \/ OtherRequestReturns
    \/ OtherRequestThrows
    \/ OtherSettles

SpecOverlap == InitBatch /\ [][NextOverlap]_vars

\* A client and a call about to be made, twice over; a batch builder is new
\* or holds one operation queued before.
InitCompile ==
    /\ source \in {"part_000", "rqlink_js"}
    /\ InitSendIdle
    /\ InitCacheIdle
    /\ InitMigrateIdle
    /\ exec = ExecIdle
    /\ other = ExecIdle
    /\ sentOps = <<>>
    /\ executes = 0
    /\ callPc = "idle"
    /\ compiled = <<>>
    /\ built = Compiling
    /\ requests = <<>>
    /\ \/ /\ call \in ModelCalls
          /\ source = "rqlink_js" => call.api # "findMany"
          /\ operations = <<>>
          /\ nextOp = 1
       \/ /\ call \in BatchCalls
          /\ source = "part_000"
          /\ \/ operations = <<>> /\ nextOp = 1
             \/ operations = <<QueuedCreate>> /\ nextOp = 2

NextCompile ==
    \/ findMany
    \/ update
    \/ delete
    \/ count
    \/ batch_update
    \/ batch_delete
    \/ Responds
    \/ CallReturns

SpecCompile == InitCompile /\ [][NextCompile]_vars

\* A process that has the schema and has not called initDB yet, and a server
\* in any of the states an earlier deployment can have left; the tables it
\* holds are tables of the schema.
InitMigrate ==
    /\ source \in {"part_000", "rqlink_js"}
    /\ InitSendIdle
    /\ InitCacheIdle
    /\ InitBatchIdle
    /\ InitCompileIdle
    /\ db \in Databases
    /\ \E schemaDef \in Schemas :
         /\ init = [InitIdle EXCEPT !.schemaDef = schemaDef]
         /\ \A t \in DOMAIN db :
               db[t].exists => \E k \in DOMAIN schemaDef : schemaDef[k].tName = t
    /\ issued = <<>>
    /\ runs = <<>>
    /\ race = RaceIdle

NextMigrate ==
    \/ initDB
    \/ StatementReturns
    \/ StatementFails
    \/ InitDBSettles
    \/ Tick

SpecMigrate == InitMigrate /\ [][NextMigrate]_vars

\* The server holds the table as an earlier version of the schema made it, or
\* not at all.
InitRace ==
    /\ source = "part_000"
    /\ InitSendIdle
    /\ InitCacheIdle
    /\ InitBatchIdle
    /\ InitCompileIdle
    /\ db \in { d \in Databases : d.posts = Absent }
    /\ init = [InitIdle EXCEPT !.schemaDef = <<UsersTable>>]
    /\ issued = <<>>
    /\ runs = <<>>
    /\ race = RaceIdle

NextRace ==
    \/ \E r \in Racers : RaceInitDB(r)
    \/ \E r \in Racers : ServerAnswers(r)
    \/ \E r \in Racers : AnswerArrives(r)
    \/ \E r \in Racers : AnswerLost(r)
    \/ \E r \in Racers : RaceSettles(r)
    \/ Tick

SpecRace == InitRace /\ [][NextRace]_vars

----------------------------------------------------------------------------
(* The dispatcher's claims, under SpecSend *)

Done == pc = "done"

\* The pre-flight size check of part_000 let the call through (rqlink.js has none).
PayloadAccepted == source = "part_000" => payloadLen <= CONFIG.maxRequestSize

\* The endpoint is one requireTLS refuses (rqlink.js has no such setting).
Refused(u) == source = "part_000" /\ InsecureBlocked(u)

\* The endpoint may be asked and would answer 2xx without a statement error.
AnswersOk(u) == net[u] = "ok" /\ ~Refused(u)

SomeEndpointAnswers == \E i \in DOMAIN baseUrls : AnswersOk(baseUrls[i])

\* C1: a call whose list holds an endpoint that would answer 2xx without
\* error (and that the transport policy lets it ask) returns the result of
\* such an endpoint, whatever its position in the list.
C1_SucceedsIfAnyEndpointAnswers ==
    (Done /\ PayloadAccepted /\ SomeEndpointAnswers)
        => /\ outcome.kind = "json"
           /\ outcome.from \in Range(baseUrls)
           /\ AnswersOk(outcome.from)

\* The same statement for the calls in which no endpoint is refused for its
\* scheme: it holds, so C1 fails only where requireTLS meets an http endpoint.
FailoverWhereNothingIsBlocked ==
    (Done /\ PayloadAccepted /\ SomeEndpointAnswers
          /\ ~(\E i \in DOMAIN baseUrls : Refused(baseUrls[i])))
        => /\ outcome.kind = "json"
           /\ outcome.from \in Range(baseUrls)
           /\ AnswersOk(outcome.from)

\* C2: when every endpoint of the list fails (it does not answer 2xx without
\* error, or the transport policy refuses it), the call throws Unreachable with
\* an attempt count equal to the length of the list and, as cause, the error
\* of the last endpoint of the list.
C2_UnreachableCountsEveryEndpoint ==
    (Done /\ source = "part_000" /\ PayloadAccepted /\ ~SomeEndpointAnswers)
        => /\ outcome.kind = "throw"
           /\ outcome.error = "Unreachable"
           /\ outcome.attempts = Len(baseUrls)
           /\ (baseUrls # <<>> /\ ~Refused(baseUrls[Len(baseUrls)]))
                => outcome.cause = [kind |-> net[baseUrls[Len(baseUrls)]],
                                    at   |-> baseUrls[Len(baseUrls)]]

\* C3: with requireTLS set an http endpoint does not end the call: a list
\* that also holds an https endpoint answering 2xx returns that endpoint's
\* result, and no request goes to an http endpoint.
C3_InsecureEndpointIsSkipped ==
    (Done /\ source = "part_000" /\ PayloadAccepted /\ CONFIG.requireTLS)
        => /\ \A i \in DOMAIN wire : IsHttps(wire[i])
           /\ (\E i \in DOMAIN baseUrls :
                   IsHttps(baseUrls[i]) /\ net[baseUrls[i]] = "ok")
                => outcome.kind = "json"

\* C4: a payload longer than CONFIG.maxRequestSize makes the call throw
\* PayloadTooLarge with no request issued and no attempt made.
C4_PayloadLimitBeforeNetwork ==
    (source = "part_000" /\ pc # "idle" /\ payloadLen > CONFIG.maxRequestSize)
        => /\ pc = "done"
           /\ outcome = Threw("PayloadTooLarge", 0, NoError)
           /\ wire = <<>>
           /\ attempt = 0

\* A too-large payload was rejected although an endpoint of the list answers.
C4_Witness ==
    /\ source = "part_000"
    /\ Done
    /\ payloadLen > CONFIG.maxRequestSize
    /\ SomeEndpointAnswers
    /\ outcome.error = "PayloadTooLarge"
    /\ wire = <<>>

\* C5: the table-info PRAGMA handed to querySQL goes out on the strong path,
\* whatever the level override and the configured freshness.
C5_PragmaAlwaysStrong ==
    (pc # "idle" /\ api = "querySQL" /\ sql = PragmaTableInfo)
        => path = StrongPath

----------------------------------------------------------------------------
(* The schema cache's claims, under SpecCache *)

\* The step is a call of the cache operation named op.
CacheCall(op) == cacheOps' = cacheOps + 1 /\ ret'.op = op

EntryOf(c, k) == CHOOSE e \in Range(c) : e.key = k

\* The entries of c other than those of key k, in order.
Others(c, k) == SelectSeq(c, LAMBDA e : e.key # k)

\* C6: getCachedSchema(key) misses when the key is absent or the entry is
\* older than CACHE_TTL, and an expired entry is gone after the read;
\* otherwise it returns the stored columns and leaves the cache as it was.
C6_GetContract ==
    [][ CacheCall("get") =>
          LET k     == ret'.key
              held  == \E e \in Range(schemaCache) : e.key = k
              fresh == held /\ now - EntryOf(schemaCache, k).timestamp <= CACHE_TTL
          IN  /\ fresh => /\ ret'.hit
                          /\ ret'.data = EntryOf(schemaCache, k).data
                          /\ schemaCache' = schemaCache
              /\ ~fresh => /\ ~ret'.hit
                           /\ ~(\E e \in Range(schemaCache') : e.key = k)
                           /\ schemaCache' = Others(schemaCache, k) ]_vars

\* A read found an entry older than the TTL and removed it.
C6_Witness ==
    /\ ret.op = "get"
    /\ ~ret.hit
    /\ ret.evicted = {ret.key}
    /\ Len(schemaCache) = MAX_CACHE_SIZE - 1

\* The entry of c that was inserted first.
EarliestInserted(c) ==
    CHOOSE e \in Range(c) : \A f \in Range(c) : e.ins <= f.ins

C8_OverwriteEvictsNothing ==
    [][ ( /\ CacheCall("set")
          /\ Len(schemaCache) = MAX_CACHE_SIZE
          /\ \E e \in Range(schemaCache) : e.key = ret'.key )
        => /\ Len(schemaCache') = MAX_CACHE_SIZE
           /\ { e.key : e \in Range(schemaCache') }
                = { e.key : e \in Range(schemaCache) } ]_vars

\* C9: the cache never holds more than MAX_CACHE_SIZE entries.
C9_SizeBounded == Len(schemaCache) <= MAX_CACHE_SIZE

\* A set on the full cache made room and left it full.
C9_Witness ==
    /\ ret.op = "set"
    /\ ret.evicted # {}
    /\ ~(ret.key \in ret.evicted)
    /\ Len(schemaCache) = MAX_CACHE_SIZE

----------------------------------------------------------------------------
(* The batch builder's claims, under SpecBatch *)

\* The step is the one in which a call of execute() returns or throws.
ExecuteFinishes == exec.pc # "finished" /\ exec'.pc = "finished"

\* C10: when a call of execute() finishes, returning or throwing, the queue
\* is empty.
C10_QueueEmptyAfterExecute ==
    [][ ExecuteFinishes => operations' = <<>> ]_vars

\* The same statement for part_000 alone, where it holds: its finally block
\* empties the queue.
QueueEmptyAfterExecuteInPart000 ==
    [][ (ExecuteFinishes /\ source = "part_000") => operations' = <<>> ]_vars

\* The consequence C10 draws: no operation goes out in two requests (it fails
\* with the queue left as it was, in src/rqlink.js).
NoOperationSentTwice ==
    \A i, j \in DOMAIN sentOps :
        i # j => Range(sentOps[i].ops) \cap Range(sentOps[j].ops) = {}

\* C11 speaks of part_000; there a call of execute() starts in this step.
ExecuteStarts == source = "part_000" /\ exec.pc = "idle" /\ exec'.pc # "idle"

\* The destinations of the operations in the queue.
DestsQueued(queue) == { queue[i].dest : i \in DOMAIN queue }

\* The statements of the queue that go to destination d, in queue order.
StatementsFor(queue, d) ==
    LET mine == SelectSeq(queue, LAMBDA op : op.dest = d)
    IN  [ i \in DOMAIN mine |-> mine[i].id ]

\* gs holds one group per destination of the queue, and each group holds all
\* and only the statements of its destination, in queue order.
GroupsPartitionQueue(gs, queue) ==
    /\ { gs[i].dest : i \in DOMAIN gs } = DestsQueued(queue)
    /\ \A i, j \in DOMAIN gs : i # j => gs[i].dest # gs[j].dest
    /\ \A i \in DOMAIN gs : gs[i].ops = StatementsFor(queue, gs[i].dest)

\* Every request that goes out is the next group of the running execute().
RequestsAreGroupsInOrder ==
    sentOps' # sentOps =>
        /\ exec'.g = (IF exec.pc = "idle" THEN 1 ELSE exec.g + 1)
        /\ exec.pc # "idle" => exec'.groups = exec.groups
        /\ exec'.g \in DOMAIN exec'.groups
        /\ sentOps' = Append(sentOps, exec'.groups[exec'.g])

\* The requests the call of execute() that ends in this step has sent.
SentByExecute == SubSeq(sentOps', Len(sentOps') - exec'.g + 1, Len(sentOps'))

\* C11: execute() sends, for each destination among the queued operations,
\* exactly one transaction request, holding all and only that destination's
\* statements in queue order; this for every call of execute(), however it
\* ends.
C11_OneRequestPerDestination ==
    [][ /\ ExecuteStarts => GroupsPartitionQueue(exec'.groups, operations)
        /\ source = "part_000" => RequestsAreGroupsInOrder
        /\ (source = "part_000" /\ ExecuteFinishes)
             => SentByExecute = exec'.groups ]_vars

\* C11 as it holds: the groups of execute() are one per destination of the
\* queue, each with all and only its destination's statements in queue order;
\* the requests go out one group at a time in order of first use, each group
\* at most once; an execute() that returns has sent every group, and one that
\* throws has sent the groups up to the one whose request threw.
C11_OneRequestPerDestinationUnlessThrown ==
    [][ /\ ExecuteStarts => GroupsPartitionQueue(exec'.groups, operations)
        /\ source = "part_000" => RequestsAreGroupsInOrder
        /\ (source = "part_000" /\ ExecuteFinishes)
             => /\ SentByExecute = SubSeq(exec'.groups, 1, exec'.g)
                /\ exec'.result = "returned" => exec'.g = Len(exec'.groups) ]_vars

\* An execute() returned after two requests, the first one carrying the first
\* and the third operation queued, the second one the operation between them.
C11_Witness ==
    /\ source = "part_000"
    /\ exec.pc = "finished"
    /\ exec.result = "returned"
    /\ Len(sentOps) = 2
    /\ sentOps[1].ops = <<1, 3>>
    /\ sentOps[2].ops = <<2>>
    /\ sentOps[1].dest # sentOps[2].dest

----------------------------------------------------------------------------
(* The endpoint order, under SpecSend *)

\* C16: the endpoints a call attempts are, in order, those of the stable
\* local-first ordering of the list it was given, for calls through
\* executeSQL and through querySQL alike.
C16_AttemptsFollowLocalFirstOrder ==
    pc # "idle" =>
        /\ Len(wire) <= Len(baseUrls)
        /\ \A i \in DOMAIN wire : wire[i] = sortBaseUrls(baseUrls)[i]

\* The same statement for src/rqlink.js alone, where it holds: its
\* rqliteRequest sorts the list it is given.
AttemptsFollowLocalFirstOrderInRqlinkJs ==
    (pc # "idle" /\ source = "rqlink_js") =>
        /\ Len(wire) <= Len(baseUrls)
        /\ \A i \in DOMAIN wire : wire[i] = sortBaseUrls(baseUrls)[i]

----------------------------------------------------------------------------
(* The compiler's claims, under SpecCompile *)

\* The filter names, at some depth, a key that is not a field of the table.
RECURSIVE NamesUnknownField(_)
NamesUnknownField(w) ==
    \E i \in DOMAIN w :
        IF w[i].key \in {"OR", "NOT"}
        THEN \E j \in DOMAIN w[i].filters : NamesUnknownField(w[i].filters[j])
        ELSE w[i].key \notin {"id", "n"}

\* The filter uses, at some depth, an operator that is none of the ten.
RECURSIVE UsesUnknownOperator(_)
UsesUnknownOperator(w) ==
    \E i \in DOMAIN w :
        IF w[i].key \in {"OR", "NOT"}
        THEN \E j \in DOMAIN w[i].filters : UsesUnknownOperator(w[i].filters[j])
        ELSE \E j \in DOMAIN w[i].entries :
                 w[i].entries[j].op \notin
                     {"equals", "not", "gt", "gte", "lt", "lte", "contains",
                      "startsWith", "endsWith", "in"}

\* The filter holds, at some depth, an `in` with an empty list.
RECURSIVE HasEmptyIn(_)
HasEmptyIn(w) ==
    \E i \in DOMAIN w :
        IF w[i].key \in {"OR", "NOT"}
        THEN \E j \in DOMAIN w[i].filters : HasEmptyIn(w[i].filters[j])
        ELSE \E j \in DOMAIN w[i].entries :
                 w[i].entries[j].op = "in" /\ w[i].entries[j].list = <<>>

RECURSIVE Sum(_)
Sum(ns) == IF ns = <<>> THEN 0 ELSE Head(ns) + Sum(Tail(ns))

\* The number of values the filter gives to be bound.
RECURSIVE ValuesIn(_)
ValuesIn(w) ==
    Sum([ i \in DOMAIN w |->
            CASE w[i].type = "null"    -> 0
              [] w[i].type = "scalar"  -> 1
              [] w[i].type = "object"  ->
                   Sum([ j \in DOMAIN w[i].entries |->
                           IF w[i].entries[j].op = "in"
                           THEN Len(w[i].entries[j].list) ELSE 1 ])
              [] OTHER ->
                   Sum([ j \in DOMAIN w[i].filters |-> ValuesIn(w[i].filters[j]) ]) ])

\* The number of values update's data gives to be bound.
ValuesOf(data) ==
    Sum([ i \in DOMAIN data |->
            IF data[i].type = "math" THEN Len(data[i].args) ELSE 1 ])

BadDirection(orderBy) ==
    \E j \in DOMAIN orderBy : orderBy[j].dir \notin {"ASC", "DESC", "asc", "desc"}

\* A limit or offset that is negative or not an integer.
BadCount(x) == x # Undefined /\ (x.n < 0 \/ x.n % x.d # 0)

UnsafeMath(data) ==
    \E i \in DOMAIN data : data[i].type = "math" /\ data[i].math \in UnsafeExprs

\* The running call has gone through its compilation at least once.
Compiled == compiled # <<>>

\* The call is one that must be rejected at compile time.
Rejectable ==
    \/ NamesUnknownField(call.where)
    \/ UsesUnknownOperator(call.where)
    \/ BadDirection(call.orderBy)
    \/ BadCount(call.limit)
    \/ BadCount(call.offset)
    \/ UnsafeMath(call.data)

\* C12: a call of part_000's table model with an unknown filter field, an
\* unknown operator, an order direction other than ASC/DESC, a negative or
\* non-integer limit or offset, or an unsafe math expression fails in its
\* compilation, and no request goes out for it, at first or when it is made
\* again.
C12_RejectedBeforeAnyRequest ==
    (source = "part_000" /\ call.api \in {"findMany", "update", "delete", "count"}
       /\ Rejectable)
        => /\ requests = <<>>
           /\ callPc # "awaiting"
           /\ Compiled => built.error # ""

\* findMany with limit -1, and nothing else wrong, was called twice and threw
\* twice.
C12_Witness ==
    /\ source = "part_000"
    /\ call.api = "findMany"
    /\ call.limit = [n |-> -1, d |-> 1]
    /\ call.where = <<EqualTo("id", "a")>>
    /\ ~BadDirection(call.orderBy)
    /\ Len(compiled) = MaxCalls
    /\ callPc = "done"
    /\ built.error = "Invalid limit. Must be a non-negative integer."
    /\ requests = <<>>

\* The first entry of data whose math expression fails the safety gate.
FirstUnsafe(data) ==
    CHOOSE i \in DOMAIN data :
        /\ data[i].type = "math" /\ data[i].math \in UnsafeExprs
        /\ \A j \in 1..(i - 1) : ~(data[j].type = "math" /\ data[j].math \in UnsafeExprs)

StartsWith(str, prefix) ==
    Len(str) >= Len(prefix) /\ SubSeq(str, 1, Len(prefix)) = prefix

\* C15: an update of part_000, direct or through a batch builder, whose math
\* expression has a character off the whitelist or holds a blocked pattern in
\* any letter case, throws UnsafeExpression; at the throw no argument of that
\* expression has been given a generated name, in the text or in the
\* bindings; no statement is sent and the builder's queue is as it was.
C15_UnsafeMathRejected ==
    (source = "part_000" /\ call.api \in {"update", "batch.update"}
       /\ UnsafeMath(call.data)
       /\ ~NamesUnknownField(call.where) /\ ~UsesUnknownOperator(call.where))
        => /\ requests = <<>>
           /\ operations \in {<<>>, <<QueuedCreate>>}
           /\ Len(operations) = nextOp - 1
           /\ Compiled =>
                LET generated == "m_" \o call.data[FirstUnsafe(call.data)].c \o "_"
                IN  /\ callPc \in {"done", "idle"}
                    /\ built.error = "Unsafe math expression detected. Operation blocked."
                    /\ \A i \in DOMAIN built.params :
                           ~StartsWith(built.params[i].name, generated)
                    /\ ~Contains(built.text, ":" \o generated)

\* A batch builder that held one operation rejected an update whose second
\* math expression is a lower-case subquery, and holds that operation still.
C15_Witness ==
    /\ source = "part_000"
    /\ call.api = "batch.update"
    /\ call.where = <<EqualTo("id", "a")>>
    /\ Len(call.data) = 2
    /\ call.data[2].math = "(select :x)"
    /\ callPc = "done"
    /\ built.error = "Unsafe math expression detected. Operation blocked."
    /\ operations = <<QueuedCreate>>

\* update's data names a column that is not a field of the table.
NamesUnknownColumn(data) == \E i \in DOMAIN data : data[i].c \notin {"id", "n"}

\* The errors the two copies throw for a name that is not in the schema.
SchemaMismatch ==
    { "Field " \o quote("ghost") \o " not found in schema",
      "Unknown field in where: ghost",
      "Unknown column " \o quote("ghost") }

\* The call's only fault is a name that is not in the schema.
OnlySchemaFault ==
    /\ NamesUnknownField(call.where) \/ NamesUnknownColumn(call.data)
    /\ ~UsesUnknownOperator(call.where)
    /\ ~UnsafeMath(call.data)
    /\ ~BadDirection(call.orderBy) /\ ~BadCount(call.limit) /\ ~BadCount(call.offset)
    /\ call.api = "update" => call.where # <<>> /\ call.data # <<>>

\* C17: a call whose filter names, at any depth of OR and NOT, a field that is
\* not in the table's FieldSet, or whose update data names such a column,
\* fails with SchemaMismatch, and no statement is sent.
C17_UnknownNameIsSchemaMismatch ==
    (call.api \in {"findMany", "update", "delete", "count"} /\ OnlySchemaFault)
        => /\ requests = <<>>
           /\ Compiled => built.error \in SchemaMismatch

\* The same statement for the fields of the filter alone: it holds in both
\* copies, at every depth.
UnknownFilterFieldIsSchemaMismatch ==
    (call.api \in {"findMany", "update", "delete", "count"} /\ OnlySchemaFault
       /\ NamesUnknownField(call.where))
        => /\ requests = <<>>
           /\ Compiled => built.error \in SchemaMismatch

\* The same statement for src/rqlink.js alone: it holds, update checks the
\* columns of data before anything else.
UnknownNameIsSchemaMismatchInRqlinkJs ==
    (source = "rqlink_js" /\ call.api \in {"update", "delete", "count"}
       /\ OnlySchemaFault)
        => /\ requests = <<>>
           /\ Compiled => built.error \in SchemaMismatch

\* C18: in a statement part_000 compiled, every value bound has a name of its
\* own: the bindings are as many as the values the filter and the data give,
\* none has overwritten another, and their names differ pairwise; the names
\* of the filter, of the literal and increment assignments and of the math
\* arguments among them.
C18_ParameterNamesUnique ==
    (source = "part_000" /\ Compiled /\ built.error = "")
        => /\ built.binds = ValuesIn(call.where) + ValuesOf(call.data)
           /\ Len(built.params) = built.binds
           /\ \A i, j \in DOMAIN built.params :
                  i # j => built.params[i].name # built.params[j].name

\* An update whose filter has the same field and operator in both branches of
\* an OR and whose data has two math expressions with an argument of the same
\* name was compiled to five bindings.
C18_Witness ==
    /\ source = "part_000"
    /\ call.api = "update"
    /\ call.where = <<Or(<< <<EqualTo("id", "a")>>, <<EqualTo("id", "a")>> >>)>>
    /\ Len(call.data) = 2
    /\ call.data[2].math = ":x + 1"
    /\ callPc = "awaiting"
    /\ Len(built.params) = 5

C20_EmptyInIsAlwaysFalse ==
    (Compiled /\ built.error = "")
        => /\ ~Contains(built.text, "IN ()")
           /\ HasEmptyIn(call.where) => Contains(built.text, "1=0")
           /\ call.api \in {"delete", "count", "batch.delete"}
                => Len(built.params) = ValuesIn(call.where)
           /\ (call.api = "count" /\ \E f \in {"id", "n"} :
                                        call.where = <<Having(f, <<In(<<>>)>>)>>)
                => /\ built.params = <<>>
                   /\ Contains(built.text, " WHERE 1=0;")

\* A count was compiled whose filter has an empty `in` under NOT under OR.
C20_Witness ==
    /\ call.api = "count"
    /\ callPc = "awaiting"
    /\ call.where = <<Or(<< <<EqualTo("id", "a")>>,
                           <<Not(<<Having("id", <<In(<<>>)>>)>>)>> >>)>>
    /\ Contains(built.text, "NOT (1=0)")

----------------------------------------------------------------------------
(* initDB's claims, under SpecMigrate *)

\* How the statements initDB may send begin.  A CREATE INDEX that is not
\* unique is sent with two blanks after CREATE.
GrowingStatements ==
    {"CREATE TABLE IF NOT EXISTS ", "PRAGMA table_info(", "ALTER TABLE ",
     "CREATE  INDEX IF NOT EXISTS ", "CREATE UNIQUE INDEX IF NOT EXISTS "}

OnlyGrows(text) ==
    /\ \E head \in GrowingStatements : StartsWith(text, head)
    /\ StartsWith(text, "ALTER TABLE ") => Contains(text, " ADD COLUMN ")
    /\ ~Contains(text, "DROP")

\* Every table the server holds is still held, with every column it had.
ColumnsKept ==
    \A t \in DOMAIN db :
       db[t].exists =>
          /\ db'[t].exists
          /\ Range(db[t].columns) \subseteq Range(db'[t].columns)

EndOf(k) ==
    IF k \in DOMAIN runs THEN runs[k]
    ELSE IF k = Len(runs) + 1 /\ init.pc = "done" THEN init.result
    ELSE "none"

Sent(k, kind) ==
    { j \in DOMAIN issued : issued[j].run = k /\ issued[j].stmt.kind = kind }

\* C14: in src/unnamed/part_000, a run of initDB that follows a run that
\* returned true sends no ALTER TABLE and the server rejects none of its
\* statements, whether the cache still holds the tables' columns, holds them
\* no more or has let them expire: the run returns true unless a request of
\* it goes unanswered.
C14_SecondRunAddsNothing ==
    source = "part_000" =>
       \A k \in 2..MaxRuns :
          EndOf(k - 1) = "returned" =>
             /\ Sent(k, "alter") = {}
             /\ EndOf(k) \in {"none", "returned", "unreachable"}

\* The first run added a column to one table and read the other from the
\* server; the second found the one in the cache, asked the server for the
\* other, and returned.
C14_Witness ==
    /\ source = "part_000"
    /\ Len(runs) >= 2
    /\ runs[1] = "returned"
    /\ runs[2] = "returned"
    /\ Sent(1, "alter") # {}
    /\ Cardinality(Sent(1, "pragma")) = 2
    /\ Cardinality(Sent(2, "pragma")) = 1

----------------------------------------------------------------------------
(* The dispatcher's claims on write requests, under SpecDeliver *)

\* A fetch is issued in this step.
Issues == Len(wire') > Len(wire)

\* The attempt on the endpoint the call was at has ended in this step, and
\* ended in failure: the catch block has it in lastError.
EndedInFailure ==
    /\ pc \in {"fetch", "body", "sleep"}
    /\ lastError'.kind # "none"
    /\ lastError'.at = wire[Len(wire)]

\* C21: within one rqliteRequest call of part_000 a fetch is issued only when
\* no request of the call is outstanding: it is the first of the call, or the
\* attempt on the endpoint before has ended in failure (the call was awaiting
\* that attempt, or the backoff sleep after it, and lastError holds its
\* error); a request is awaited only at the endpoint issued last; and once an
\* attempt has returned json no further fetch is issued.
C21_AttemptsAreSequential ==
    [][ source = "part_000" =>
          /\ Issues =>
               /\ wire' = Append(wire, urls'[iter'])
               /\ pc' = "fetch"
               /\ wire = <<>> \/ EndedInFailure
               /\ outcome.kind = "pending"
          /\ pc' \in {"fetch", "body"} => wire' # <<>> /\ wire'[Len(wire')] = urls'[iter']
          /\ outcome.kind = "json" /\ pc # "idle" => wire' = wire \/ pc' = "idle" ]_vars

\* A second endpoint was asked after the first timed out, after a backoff,
\* and its answer was returned.
C21_Witness ==
    /\ source = "part_000"
    /\ CONFIG.retryDelay > 0
    /\ Len(wire) = 2
    /\ net[wire[1]] = "late"
    /\ outcome.kind = "json"
    /\ outcome.from = wire[2]

\* C22: an attempt whose response has an error in any element of results is
\* a failed attempt: its response is never what the call returns.
C22_AnyResultErrorFailsTheAttempt ==
    outcome.kind = "json" => net[outcome.from] \notin {"stmterr", "stmterr2"}

\* In src/unnamed/part_000 it is so.
AnyResultErrorFailsTheAttemptInPart000 ==
    source = "part_000" => C22_AnyResultErrorFailsTheAttempt

\* C23: a call that is under way can always take a step: its sleep ends, its
\* fetch rejects, resolves or is aborted by the deadline timer, or the body
\* arrives.  (Where it cannot, the call never returns or fails although every
\* started timer fires.)
C23_NoAttemptBlocksForever ==
    pc \in {"sleep", "fetch", "body"} =>
       ENABLED (Wake \/ FetchRejects \/ TimerAborts \/ FetchResolves \/ BodyResolves)

\* Up to the status line every attempt can go on.
NoAttemptBlocksBeforeTheBody ==
    pc \in {"sleep", "fetch"} =>
       ENABLED (Wake \/ FetchRejects \/ TimerAborts \/ FetchResolves)

\* C30: of the endpoints one executeSQL call has sent its statement to, at
\* most one runs it.
C30_WriteAppliedAtMostOnce ==
    api = "executeSQL" =>
       Cardinality({ k \in DOMAIN wire : Runs(net[wire[k]]) }) <= 1

----------------------------------------------------------------------------
(* The compiler's claims on empty filters, under SpecCompile *)

\* The filter has an empty filter under an OR or a NOT, at any depth.
RECURSIVE EmptyInside(_)
EmptyInside(w) ==
    \E i \in DOMAIN w :
       /\ w[i].type = "filters"
       /\ \E j \in DOMAIN w[i].filters :
             w[i].filters[j] = <<>> \/ EmptyInside(w[i].filters[j])

\* The filter has an OR of no filters or a field with an object of no
\* operators, at any depth.
RECURSIVE Hollow(_)
Hollow(w) ==
    \E i \in DOMAIN w :
       \/ w[i].type = "object" /\ w[i].entries = <<>>
       \/ w[i].key = "OR" /\ w[i].filters = <<>>
       \/ /\ w[i].type = "filters"
          /\ \E j \in DOMAIN w[i].filters : Hollow(w[i].filters[j])

\* The statement has an empty clause or an empty group or operand in it.
EmptyGroup(text) ==
    \E gap \in {"()", "( OR ", " OR )", "( AND ", " AND )", " AND  AND ",
                "WHERE ;", "WHERE  ", " AND ;", " AND  RETURNING"} :
       Contains(text, gap)

\* What the methods compiled into statements.
Statements == { k \in DOMAIN compiled : compiled[k].error = "" }

\* C24: no statement compiled from a filter has an empty clause, an empty
\* group or an empty operand in it, and a filter with an empty filter under an
\* OR or a NOT has the always-true clause 1=1 in its place.
C24_EmptyFilterIsAlwaysTrueAtEveryLevel ==
    call.api \in {"delete", "count"} =>
       \A k \in Statements :
          /\ ~EmptyGroup(compiled[k].text)
          /\ call.where = <<>> => compiled[k].params = <<>> /\ Contains(compiled[k].text, " WHERE 1=1;")
          /\ EmptyInside(call.where) => Contains(compiled[k].text, "1=1")

\* In src/rqlink.js it is so for the filters with no OR of nothing and no
\* field without operators.
EmptyChildIsAlwaysTrueInRqlinkJs ==
    source = "rqlink_js" /\ ~Hollow(call.where) => C24_EmptyFilterIsAlwaysTrueAtEveryLevel

\* In src/unnamed/part_000 it is so for the filters that are empty at the top
\* or have nothing empty in them.
EmptyTopLevelIsAlwaysTrueInPart000 ==
    source = "part_000" /\ ~Hollow(call.where) /\ ~EmptyInside(call.where)
       => C24_EmptyFilterIsAlwaysTrueAtEveryLevel

\* C25: update and delete called with no where or an empty one throw and
\* hand no statement to executeSQL; no UPDATE or DELETE is handed over whose
\* WHERE clause is the 1=1 of an empty filter.
C25_UpdateAndDeleteRequireWhere ==
    call.api \in {"update", "delete"} =>
       /\ call.where = <<>> => \A k \in DOMAIN compiled : compiled[k].error # ""
       /\ \A k \in DOMAIN requests :
             /\ ~Contains(requests[k].sql, " WHERE 1=1;")
             /\ ~Contains(requests[k].sql, " WHERE 1=1 RETURNING")

\* In src/rqlink.js it is so.
UpdateAndDeleteRequireWhereInRqlinkJs ==
    source = "rqlink_js" => C25_UpdateAndDeleteRequireWhere

----------------------------------------------------------------------------
(* The batch builder's claims on calls that interleave *)

\* The operation is in one of the transaction requests.
SentIn(reqs, id) == { k \in DOMAIN reqs : id \in Range(reqs[k].ops) }

\* C26, under SpecBatch: when an execute() of part_000 returns, every
\* operation that was in the queue, queued before the call or during it, has
\* been sent in a request or is in the queue still.
C26_NothingDiscardedUnsent ==
    [][ /\ source = "part_000"
        /\ exec.pc = "awaiting"
        /\ exec'.pc = "finished"
        /\ exec'.result = "returned"
        => \A k \in DOMAIN operations :
              \/ SentIn(sentOps', operations[k].id) # {}
              \/ \E j \in DOMAIN operations' : operations'[j].id = operations[k].id ]_vars

\* What was in the queue when the call grouped it is sent by a call that
\* returns.
QueuedBeforeIsSent ==
    [][ /\ source = "part_000"
        /\ exec.pc = "awaiting"
        /\ exec'.pc = "finished"
        /\ exec'.result = "returned"
        => \A g \in DOMAIN exec.groups : \A k \in DOMAIN exec.groups[g].ops :
              SentIn(sentOps', exec.groups[g].ops[k]) # {} ]_vars

\* C27, under SpecOverlap: no operation of a builder of part_000 is in two
\* transaction requests.
C27_SentAtMostOnce ==
    source = "part_000" =>
       \A id \in 1..MaxQueued : Cardinality(SentIn(sentOps, id)) <= 1

----------------------------------------------------------------------------
(* initDB's claims on calls that run at the same time, under SpecRace *)

NoCallUnderWay == \A r \in Racers : race.runs[r].pc = "idle"

\* What the cache holds for the table lacks none of the columns.
CacheHolds(cols) ==
    LET key == cacheKey(UsersTable)
    IN  MapHas(schemaCache, key) => cols \subseteq Range(MapGet(schemaCache, key).data)

\* C28: once the ALTER of a call has returned and every call has ended, the
\* cache holds no entry for the table that lacks the added column, however
\* the calls interleaved; and a call made after that sends no ALTER for a
\* column the table has.
C28_NoStaleEntryOnceAdded ==
    /\ NoCallUnderWay => CacheHolds(race.added)
    /\ \A r \in Racers :
          LET run == race.runs[r]
          IN  /\ run.later
              /\ run.pc = "sent"
              /\ run.step = "alter"
              => ~includes(db.users.columns, UsersTable.fields[run.i].name)

\* Calls made one after the other leave no such entry.
OneCallAtATimeLeavesNoStaleEntry ==
    ~race.overlapped => (NoCallUnderWay => CacheHolds(race.added))

----------------------------------------------------------------------------
(* The configuration's frame *)

\* C29, under SpecMigrate: no step of an initDB call, made with verbose or
\* without, changes a key of CONFIG; only configure() does.
C29_OnlyConfigureChangesConfig ==
    [][CONFIG' # CONFIG => configure]_vars

\* The steps of the dispatcher and of its callers leave CONFIG as it is; the
\* steps that change it are calls of configure().
DispatcherLeavesConfig ==
    [][CONFIG' = CONFIG \/ configure]_vars

====
